---- MODULE Spec2Model ----
(***************************************************************************)
(* Model of the mipmapped-mesh Vulkan demo (src/src/main.cpp).             *)
(*                                                                         *)
(* Spec      the frame loop: App::mainLoop, App::draw and                  *)
(*           App::recreateSwapChain running against an asynchronous GPU    *)
(*           and a windowing environment that resizes the window.          *)
(* LiveSpec  the same, with the fairness the GPU and the blocking fence    *)
(*           wait provide.                                                 *)
(* MipSpec   App::generateMipmaps, command by command, over every          *)
(*           (texWidth, texHeight, mipLevels) within the bounds.           *)
(* MemSpec   App::createBuffer / App::createImage with App::findMemoryType *)
(*           over every memory type table within the bounds.               *)
(* TransSpec App::transitionImageLayout over every pair of layouts.        *)
(* ChainSpec the extent and image count App::createSwapChain chooses, over *)
(*           every window size, content scale and surface.                 *)
(* StageSpec the staging part of App::createTextureImage over every image  *)
(*           size and channel count within the bounds.                     *)
(* TexSpec   App::createTextureImage from the created image on.            *)
(* ShotSpec  App::createVertexBuffer / App::createIndexBuffer and their    *)
(*           single-use command buffer.                                    *)
(* SwapSpec  App::recreateSwapChain, object by object.                     *)
(* SyncSpec  the semaphores of App::draw, the graphics queue and the       *)
(*           presentation engine.                                          *)
(* DetectSpec  PlatformCapabilities::detectMissingRequiredDeviceExtensions *)
(*           (src/src/PlatformCapabilities.cpp) over every pair of lists.  *)
(***************************************************************************)
EXTENDS Integers, Sequences, FiniteSets, TLC

\* ------------------------------------------------------------------ bounds
\* Largest window width (screen coordinates) the environment produces.
MaxWinWidth == 2
\* Smallest image extent of a surface that leaves the extent to the caller.
CapMin == 1
\* maxImageExtent - minImageExtent of such a surface.
CapSpan == 0
\* Largest texture dimension and mip count given to generateMipmaps.
MaxTexDim == 9
MaxMip == 5
\* Largest memoryTypeCount of the physical device.
MaxMemoryTypes == 3
\* Largest image extent bound and largest minImageCount a surface reports.
MaxCapExtent == 2
MaxMinImageCount == 3
\* Largest size, in copy units, of a vertex or index buffer.
MaxBufferSize == 4
\* Largest number of images of a swapchain.
MaxSwapImages == 3
\* Longest list of extension names.
MaxExtensions == 2
\* Bits of the machine word the staging size is computed in: uint32_t and int
\* are scaled down to WordBits bits, the decoder's limit with them.
WordBits == 8

\* ------------------------------------------------------- program constants
MAX_FRAMES_IN_FLIGHT == 2
\* std::numeric_limits<uint32_t>::max(), the "undefined" currentExtent.  The
\* model checker's integers are 32-bit signed, so the largest of them stands
\* for it: the code only tests equality with it, and it exceeds every extent.
UINT32_MAX == 2147483647
\* The component count createTextureImage forces on the decoder.
STBI_rgb_alpha == 4

Slots == 0 .. (MAX_FRAMES_IN_FLIGHT - 1)

Max(a, b) == IF a >= b THEN a ELSE b
Min(a, b) == IF a <= b THEN a ELSE b

\* ================================================================ frame loop
VARIABLES
    pc,                  \* position of the CPU thread in mainLoop/draw/recreateSwapChain
    m_currentFrame,      \* frame slot index f
    m_inFlightFences,    \* slot -> TRUE iff the fence is signaled
    pending,             \* slot -> number of submissions of that slot the GPU has not finished
    framebufferResized,  \* the engine's surface-size-changed flag
    m_swapChainExtent,   \* extent of the current swapchain
    rcWidth, rcHeight,   \* locals width, height of recreateSwapChain
    rcReturn,            \* where recreateSwapChain returns to in draw()
    winSize,             \* window size in screen coordinates (glfwGetWindowSize)
    contentScale,        \* framebuffer pixels per screen coordinate
    reportsExtent,       \* TRUE iff the surface reports currentExtent (no sentinel)
    resizeEvent,         \* a size-changed event is queued and not yet delivered
    sameSurfaceBuilds,   \* swapchain creations since the surface last changed (saturates at 2)
    call                 \* what the current (or, at pc = "loop", the last) draw() call did

frameVars == << pc, m_currentFrame, m_inFlightFences, pending, framebufferResized,
                m_swapChainExtent, rcWidth, rcHeight, rcReturn, winSize, contentScale,
                reportsExtent, resizeEvent, sameSurfaceBuilds, call >>

\* State of generateMipmaps.
VARIABLES
    mpc,          \* position in generateMipmaps
    texWidth,     \* arguments
    texHeight,
    mipLevels,
    linearBlit,   \* optimalTilingFeatures has SAMPLED_IMAGE_FILTER_LINEAR for the format
    mipI,         \* loop variable i
    mipWidth,     \* locals mipWidth, mipHeight
    mipHeight,
    commands,     \* commands recorded into the single-use command buffer, in order
    cmdBuffer,    \* "none", "recording" or "freed"
    imageLayout   \* mip level -> layout the image's level is in

mipVars == << mpc, texWidth, texHeight, mipLevels, linearBlit, mipI, mipWidth, mipHeight,
              commands, cmdBuffer, imageLayout >>

\* State of createBuffer / createImage and of the findMemoryType call inside,
\* a record with the fields
\*   apc           position in createBuffer / createImage
\*   resKind       "buffer" (createBuffer) or "image" (createImage)
\*   memoryTypes   memProperties.memoryTypes[i].propertyFlags, i-th at index i + 1
\*   typeFilter    memRequirements.memoryTypeBits
\*   properties    the requested VkMemoryPropertyFlags
\*   memI          loop variable i of findMemoryType
\*   memTypeIndex  value findMemoryType returned, NoIndex before
\*   resource      what the call has created, allocated, bound and returned
\* While another part of the program runs, only apc = "idle" is kept.
VARIABLE mem

\* State of transitionImageLayout, a record with the fields
\*   tpc                              position in transitionImageLayout
\*   oldLayout, newLayout, mipLevels  arguments
\*   accessMasks   << srcAccessMask, dstAccessMask >> chosen by the first lambda
\*   stages        << sourceStage, destinationStage >> chosen by the second lambda
\*   commands      commands recorded into the single-use command buffer
\*   cmdBuffer     "none", "recording" or "freed"
\*   submitted     TRUE iff the command buffer was submitted to the graphics queue
VARIABLE trans

\* State of the choices createSwapChain makes from the surface capabilities, a
\* record with the fields
\*   cpc           position in createSwapChain
\*   capabilities  swapChainSupport.capabilities
\*   extent        local extent (selectSwapExtent)
\*   imageCount    local imageCount
VARIABLE chain

\* State of the staging part of createTextureImage, a record with the fields
\*   spc                                  position in createTextureImage
\*   fileWidth, fileHeight, fileChannels  the image file: size, channels per pixel
\*   m_width, m_height, m_channels        StbTextureImage
\*   pixelBytes    size in bytes of the array m_pixels points to
\*   imageSize     local imageSize
\*   stagingBytes  size of the staging buffer
\*   bytesRead     bytes memcpy reads starting at m_pixels
VARIABLE stage

\* State of the image part of createTextureImage, a record with the fields
\*   xpc                      position in createTextureImage
\*   width, height, mipLevels the loaded image's size and its mip count
\*   linearBlit               whether the format supports linear blits
\*   layout                   mip level -> the layout the image's level is in
\*   history                  commands of the submissions that have executed
\*   staging                  "alive" or "destroyed"
VARIABLE tex

\* State of createVertexBuffer / createIndexBuffer and of the queue, a record
\* with the fields
\*   vpc                   position in the function
\*   kind, bufferSize      which buffer is created and its size in units
\*   staging, target       "none", "alive" or "destroyed"
\*   filled                units written to the staging buffer
\*   cmdBuffer             "none", "recording", "pending" or "freed"
\*   submission            "none", "pending" or "complete"
\*   copied                units the queue has copied
\*   log                   the calls made on the command buffer and the staging buffer
\*   fault                 the queue has touched a released object
VARIABLE shot

\* State of recreateSwapChain and of the swapchain-dependent objects, a record
\* with the fields
\*   wpc                    position in recreateSwapChain
\*   gen                    number of the creation in progress or last finished
\*   swapChain, imageViews, depth, framebuffers
\*                          creation each member comes from and its size
\*   busyAtEntry            the slots whose GPU work was outstanding at entry
\*   log                    the calls made so far
\*   used                   the image index the next frame acquired, if any
VARIABLE swap

\* State of draw()'s semaphores, of the graphics queue and of the presentation
\* engine, a record with the fields
\*   ypc, slot, imageIndex, ret   position in draw(), m_currentFrame, the
\*                                acquired index, where recreateSwapChain returns
\*   fence                        slot -> TRUE iff the fence is signaled
\*   imageAvailable               slot -> 1 iff the semaphore is signaled
\*   renderFinished               slot -> number of signals not yet waited for
\*   images                       image -> its state and the semaphore of its acquire
\*   gpu, presents                submissions and present requests not yet done
\*   fault                        an image was written or presented too early
VARIABLE sync

\* State of detectMissingRequiredDeviceExtensions, a record with the fields
\*   dpc                          position in the function
\*   requiredExtensions           physicalDeviceRequirements.getExtensions()
\*   availableExtensions          the extensions of physicalDeviceProperties
\*   i                            index of the loop's current element
\*   missingExtensionNames        the result being built
VARIABLE detect

setupVars == << mem, trans, chain, stage, tex, shot, swap, sync, detect >>

vars == << frameVars, mipVars, setupVars >>

\* ------------------------------------------------------------- environment
\* glfwGetFramebufferSize: the window size in pixels.
FramebufferSize == [width |-> winSize.width * contentScale, height |-> winSize.height * contentScale]

\* VkSurfaceCapabilitiesKHR as querySwapChainSupport returns it now.
SurfaceCapabilities ==
    IF reportsExtent
    THEN [currentExtent  |-> FramebufferSize,
          minImageExtent |-> FramebufferSize,
          maxImageExtent |-> FramebufferSize]
    ELSE [currentExtent  |-> [width |-> UINT32_MAX, height |-> UINT32_MAX],
          minImageExtent |-> [width |-> CapMin, height |-> CapMin],
          maxImageExtent |-> [width |-> CapMin + CapSpan, height |-> CapMin + CapSpan]]

\* static_cast<uint32_t>(int)
ToUint32(x) == IF x >= 0 THEN x ELSE (UINT32_MAX + x) + 1

\* std::clamp(v, lo, hi)
StdClampNoLower(v, lo, hi) == IF hi < v THEN hi ELSE v
StdClamp(v, lo, hi) == IF v < lo THEN lo ELSE IF hi < v THEN hi ELSE v

selectSwapExtent(capabilities) ==
    IF capabilities.currentExtent.width # UINT32_MAX
    THEN capabilities.currentExtent
    ELSE [width  |-> StdClamp(ToUint32(winSize.width),
                              capabilities.minImageExtent.width,
                              capabilities.maxImageExtent.width),
          height |-> StdClamp(ToUint32(winSize.height),
                              capabilities.minImageExtent.height,
                              capabilities.maxImageExtent.height)]

NoCall == [entered |-> FALSE, frame0 |-> 0, acquire |-> "none",
           waited |-> FALSE, fenceReset |-> FALSE, uboWritten |-> FALSE, recorded |-> FALSE,
           submitted |-> FALSE, presented |-> FALSE, presentAsked |-> FALSE,
           flagCleared |-> FALSE, recreated |-> FALSE, signalInRecreate |-> FALSE,
           zeroExtentCreate |-> FALSE, presentFailed |-> FALSE]

\* Window heights: 0 (minimised) and 1.  recreateSwapChain and selectSwapExtent
\* treat the two components alike, and the width takes the larger values.
WinHeights == {0, 1}

WinSizes == [width : 0 .. MaxWinWidth, height : WinHeights]

\* Framebuffer pixels per screen coordinate: an ordinary and a high-DPI display.
ContentScales == {1, 2}

FrameInit ==
    /\ pc = "loop"
    /\ m_currentFrame = 0
    /\ m_inFlightFences = [f \in Slots |-> TRUE]
    /\ pending = [f \in Slots |-> 0]
    /\ framebufferResized = FALSE
    /\ winSize \in {s \in WinSizes : s.width > 0 /\ s.height > 0}
    /\ contentScale \in ContentScales
    /\ reportsExtent \in BOOLEAN
    /\ m_swapChainExtent = selectSwapExtent(SurfaceCapabilities)
    /\ rcWidth = 0
    /\ rcHeight = 0
    /\ rcReturn = "loop"
    /\ resizeEvent = FALSE
    /\ sameSurfaceBuilds = 1
    /\ call = NoCall


\* ------------------------------------------------------------- GPU, window
\* The GPU finishes the oldest unfinished submission of slot f and signals
\* the fence given to vkQueueSubmit.
GpuComplete(f) ==
    /\ UNCHANGED << mipVars, setupVars >>
    /\ pending[f] > 0
    /\ pending' = [pending EXCEPT ![f] = pending[f] - 1]
    /\ m_inFlightFences' = [m_inFlightFences EXCEPT ![f] = TRUE]
    /\ UNCHANGED << pc, m_currentFrame, framebufferResized, m_swapChainExtent, rcWidth,
                    rcHeight, rcReturn, winSize, contentScale, reportsExtent, resizeEvent,
                    sameSurfaceBuilds, call >>

\* The windowing environment changes the window size (possibly to zero:
\* minimised) and queues a size-changed event for the next event processing.
EnvResize ==
    /\ UNCHANGED << mipVars, setupVars >>
    /\ pc \notin {"exitIdle", "cleanup", "fatal", "done"}
    /\ \E s \in WinSizes :
         /\ s # winSize
         /\ winSize' = s
    /\ resizeEvent' = TRUE
    /\ sameSurfaceBuilds' = 0
    /\ UNCHANGED << pc, m_currentFrame, m_inFlightFences, pending, framebufferResized,
                    m_swapChainExtent, rcWidth, rcHeight, rcReturn, contentScale,
                    reportsExtent, call >>

\* The engine's framebuffer-size callback, run by glfwPollEvents/glfwWaitEvents.
FlagAfterEvents == framebufferResized \/ resizeEvent

\* vkDeviceWaitIdle returns once no submitted work is outstanding.
DeviceIdleThisSlot == pending[m_currentFrame] = 0
DeviceIdle == \A f \in Slots : pending[f] = 0

\* ---------------------------------------------------------------- mainLoop
\* while (!glfwWindowShouldClose(window)) { glfwPollEvents(); draw(); }
PollEvents ==
    /\ UNCHANGED << mipVars, setupVars >>
    /\ pc = "loop"
    /\ framebufferResized' = FlagAfterEvents
    /\ resizeEvent' = FALSE
    /\ call' = [NoCall EXCEPT !.entered = TRUE, !.frame0 = m_currentFrame]
    /\ pc' = "waitFence"
    /\ UNCHANGED << m_currentFrame, m_inFlightFences, pending, m_swapChainExtent, rcWidth,
                    rcHeight, rcReturn, winSize, contentScale, reportsExtent,
                    sameSurfaceBuilds >>

WindowShouldClose ==
    /\ UNCHANGED << mipVars, setupVars >>
    /\ pc = "loop"
    /\ pc' = "exitIdle"
    /\ UNCHANGED << m_currentFrame, m_inFlightFences, pending, framebufferResized,
                    m_swapChainExtent, rcWidth, rcHeight, rcReturn, winSize, contentScale,
                    reportsExtent, resizeEvent, sameSurfaceBuilds, call >>

\* vkDeviceWaitIdle after the loop.
ExitWaitIdle ==
    /\ UNCHANGED << mipVars, setupVars >>
    /\ pc = "exitIdle"
    /\ DeviceIdle
    /\ pc' = "cleanup"
    /\ UNCHANGED << m_currentFrame, m_inFlightFences, pending, framebufferResized,
                    m_swapChainExtent, rcWidth, rcHeight, rcReturn, winSize, contentScale,
                    reportsExtent, resizeEvent, sameSurfaceBuilds, call >>

\* ~App() -> cleanup(), after run() returned or after it threw.
Cleanup ==
    /\ UNCHANGED << mipVars, setupVars >>
    /\ pc \in {"cleanup", "fatal"}
    /\ pc' = "done"
    /\ UNCHANGED << m_currentFrame, m_inFlightFences, pending, framebufferResized,
                    m_swapChainExtent, rcWidth, rcHeight, rcReturn, winSize, contentScale,
                    reportsExtent, resizeEvent, sameSurfaceBuilds, call >>

\* -------------------------------------------------------------------- draw
AcquireResults == {"VK_SUCCESS", "VK_SUBOPTIMAL_KHR", "VK_ERROR_OUT_OF_DATE_KHR",
                   "VK_ERROR_DEVICE_LOST"}
PresentResults == {"VK_SUCCESS", "VK_SUBOPTIMAL_KHR", "VK_ERROR_OUT_OF_DATE_KHR",
                   "VK_ERROR_DEVICE_LOST"}
SubmitResults == {"VK_SUCCESS", "VK_ERROR_DEVICE_LOST"}

\* vkWaitForFences(fence f, UINT64_MAX) returns.
FenceWaitReturnsNoWait(f) == TRUE
FenceWaitReturnsAnySignaled(f) == \E g \in Slots : m_inFlightFences[g]
FenceWaitReturns(f) == m_inFlightFences[f]

WaitForFences ==
    /\ UNCHANGED << mipVars, setupVars >>
    /\ pc = "waitFence"
    /\ FenceWaitReturns(m_currentFrame)
    /\ call' = [call EXCEPT !.waited = TRUE]
    /\ pc' = "acquire"
    /\ UNCHANGED << m_currentFrame, m_inFlightFences, pending, framebufferResized,
                    m_swapChainExtent, rcWidth, rcHeight, rcReturn, winSize, contentScale,
                    reportsExtent, resizeEvent, sameSurfaceBuilds >>


\* vkAcquireNextImageKHR and the test of its result (lines 1694-1708).  On
\* VK_ERROR_OUT_OF_DATE_KHR draw() calls recreateSwapChain and returns: the
\* frame index and the fences are left as they are.
AcquireAbortsAlsoSuboptimal(result) ==
    result = "VK_ERROR_OUT_OF_DATE_KHR" \/ result = "VK_SUBOPTIMAL_KHR"
AcquireAborts(result) == result = "VK_ERROR_OUT_OF_DATE_KHR"

AbortReturnsToAdvance == "advance"
AbortReturnsTo == "loop"

FencesAfterAbortReset(fences, f) == [fences EXCEPT ![f] = FALSE]
FencesAfterAbort(fences, f) == fences

AcquireNextImage ==
    /\ UNCHANGED << mipVars, setupVars >>
    /\ pc = "acquire"
    /\ \E result \in AcquireResults :
         /\ call' = [call EXCEPT !.acquire = result]
         /\ IF AcquireAborts(result)
            THEN /\ pc' = "rcGetSize"
                 /\ rcReturn' = AbortReturnsTo
                 /\ m_inFlightFences' = FencesAfterAbort(m_inFlightFences, m_currentFrame)
            ELSE IF result # "VK_SUCCESS" /\ result # "VK_SUBOPTIMAL_KHR"
            THEN /\ pc' = "fatal"
                 /\ UNCHANGED << rcReturn, m_inFlightFences >>
            ELSE /\ pc' = "updateUniform"
                 /\ UNCHANGED << rcReturn, m_inFlightFences >>
    /\ UNCHANGED << m_currentFrame, pending, framebufferResized, m_swapChainExtent, rcWidth,
                    rcHeight, winSize, contentScale, reportsExtent, resizeEvent,
                    sameSurfaceBuilds >>

\* updateUniformBuffer(m_currentFrame): memcpy into the slot's mapped buffer.
UpdateUniformBuffer ==
    /\ UNCHANGED << mipVars, setupVars >>
    /\ pc = "updateUniform"
    /\ call' = [call EXCEPT !.uboWritten = TRUE]
    /\ pc' = "resetFence"
    /\ UNCHANGED << m_currentFrame, m_inFlightFences, pending, framebufferResized,
                    m_swapChainExtent, rcWidth, rcHeight, rcReturn, winSize, contentScale,
                    reportsExtent, resizeEvent, sameSurfaceBuilds >>

\* vkResetFences
ResetFences ==
    /\ UNCHANGED << mipVars, setupVars >>
    /\ pc = "resetFence"
    /\ m_inFlightFences' = [m_inFlightFences EXCEPT ![m_currentFrame] = FALSE]
    /\ call' = [call EXCEPT !.fenceReset = TRUE]
    /\ pc' = "record"
    /\ UNCHANGED << m_currentFrame, pending, framebufferResized, m_swapChainExtent, rcWidth,
                    rcHeight, rcReturn, winSize, contentScale, reportsExtent, resizeEvent,
                    sameSurfaceBuilds >>

\* vkResetCommandBuffer + recordCommandBuffer
RecordCommandBuffer ==
    /\ UNCHANGED << mipVars, setupVars >>
    /\ pc = "record"
    /\ call' = [call EXCEPT !.recorded = TRUE]
    /\ pc' = "submit"
    /\ UNCHANGED << m_currentFrame, m_inFlightFences, pending, framebufferResized,
                    m_swapChainExtent, rcWidth, rcHeight, rcReturn, winSize, contentScale,
                    reportsExtent, resizeEvent, sameSurfaceBuilds >>

\* vkQueueSubmit(..., m_inFlightFences[m_currentFrame])
QueueSubmit ==
    /\ UNCHANGED << mipVars, setupVars >>
    /\ pc = "submit"
    /\ \E result \in SubmitResults :
         IF result # "VK_SUCCESS"
         THEN /\ pc' = "fatal"
              /\ UNCHANGED << pending, call >>
         ELSE /\ pending' = [pending EXCEPT ![m_currentFrame] = pending[m_currentFrame] + 1]
              /\ call' = [call EXCEPT !.submitted = TRUE]
              /\ pc' = "present"
    /\ UNCHANGED << m_currentFrame, m_inFlightFences, framebufferResized, m_swapChainExtent,
                    rcWidth, rcHeight, rcReturn, winSize, contentScale, reportsExtent,
                    resizeEvent, sameSurfaceBuilds >>

\* The condition of line 1749.
RecreateAfterPresentIgnoreFlag(result, resized) ==
    result = "VK_ERROR_OUT_OF_DATE_KHR" \/ result = "VK_SUBOPTIMAL_KHR"
RecreateAfterPresent(result, resized) ==
    result = "VK_ERROR_OUT_OF_DATE_KHR" \/ result = "VK_SUBOPTIMAL_KHR" \/ resized

\* vkQueuePresentKHR and the test of its result (lines 1748-1754).
\* call.presentAsked remembers whether present reported out-of-date or
\* suboptimal, or the resize flag was set when present returned.
\* call.presentFailed tells that the result just tested was an error other than
\* out-of-date; it holds until the thread's next step (the local result is
\* dead after the test).
QueuePresent ==
    /\ UNCHANGED << mipVars, setupVars >>
    /\ pc = "present"
    /\ \E result \in PresentResults :
         LET asked == \/ result = "VK_ERROR_OUT_OF_DATE_KHR"
                      \/ result = "VK_SUBOPTIMAL_KHR"
                      \/ framebufferResized
             failed == result \notin {"VK_SUCCESS", "VK_SUBOPTIMAL_KHR",
                                      "VK_ERROR_OUT_OF_DATE_KHR"}
         IN IF RecreateAfterPresent(result, framebufferResized)
            THEN /\ framebufferResized' = FALSE
                 /\ call' = [call EXCEPT !.presented = TRUE, !.presentAsked = asked,
                                         !.flagCleared = TRUE, !.presentFailed = failed]
                 /\ pc' = "rcGetSize"
                 /\ rcReturn' = "advance"
            ELSE IF result # "VK_SUCCESS"
            THEN /\ pc' = "fatal"
                 /\ call' = [call EXCEPT !.presentAsked = asked, !.presentFailed = failed]
                 /\ UNCHANGED << framebufferResized, rcReturn >>
            ELSE /\ pc' = "advance"
                 /\ call' = [call EXCEPT !.presented = TRUE, !.presentAsked = asked]
                 /\ UNCHANGED << framebufferResized, rcReturn >>
    /\ UNCHANGED << m_currentFrame, m_inFlightFences, pending, m_swapChainExtent, rcWidth,
                    rcHeight, winSize, contentScale, reportsExtent, resizeEvent,
                    sameSurfaceBuilds >>

\* m_currentFrame = (m_currentFrame + 1) % MAX_FRAMES_IN_FLIGHT; draw() returns.
AdvanceFrame ==
    /\ UNCHANGED << mipVars, setupVars >>
    /\ pc = "advance"
    /\ m_currentFrame' = (m_currentFrame + 1) % MAX_FRAMES_IN_FLIGHT
    /\ pc' = "loop"
    /\ UNCHANGED << m_inFlightFences, pending, framebufferResized, m_swapChainExtent,
                    rcWidth, rcHeight, rcReturn, winSize, contentScale, reportsExtent,
                    resizeEvent, sameSurfaceBuilds, call >>


\* ------------------------------------------------------- recreateSwapChain
\* The locals width and height are read only by the loop test that follows the
\* statement that sets them; rcWidth and rcHeight hold them until that test and
\* are 0 while the locals are dead.
\* The first glfwGetFramebufferSize (line 1778) and the first loop test.
\* Entering recreateSwapChain ends the life of draw()'s local result.
RecreateGetSize ==
    /\ UNCHANGED << mipVars, setupVars >>
    /\ pc = "rcGetSize"
    /\ LET width == FramebufferSize.width
           height == FramebufferSize.height
       IN pc' = IF width = 0 \/ height = 0 THEN "rcPoll" ELSE "rcWaitIdle"
    /\ call' = [call EXCEPT !.presentFailed = FALSE]
    /\ UNCHANGED << m_currentFrame, m_inFlightFences, pending, framebufferResized,
                    m_swapChainExtent, rcWidth, rcHeight, rcReturn, winSize, contentScale,
                    reportsExtent, resizeEvent, sameSurfaceBuilds >>

\* Loop body, first statement: glfwGetFramebufferSize (line 1780).
RecreatePollSize ==
    /\ UNCHANGED << mipVars, setupVars >>
    /\ pc = "rcPoll"
    /\ rcWidth' = FramebufferSize.width
    /\ rcHeight' = FramebufferSize.height
    /\ pc' = "rcWaitEvents"
    /\ UNCHANGED << m_currentFrame, m_inFlightFences, pending, framebufferResized,
                    m_swapChainExtent, rcReturn, winSize, contentScale, reportsExtent,
                    resizeEvent, sameSurfaceBuilds, call >>

\* Loop body, second statement: glfwWaitEvents (line 1781) runs the callbacks
\* of the queued events; then the loop test on the sizes read before it.
RecreateWaitEvents ==
    /\ UNCHANGED << mipVars, setupVars >>
    /\ pc = "rcWaitEvents"
    /\ framebufferResized' = FlagAfterEvents
    /\ resizeEvent' = FALSE
    /\ call' = [call EXCEPT !.signalInRecreate = call.signalInRecreate \/ resizeEvent]
    /\ pc' = IF rcWidth = 0 \/ rcHeight = 0 THEN "rcPoll" ELSE "rcWaitIdle"
    /\ rcWidth' = 0
    /\ rcHeight' = 0
    /\ UNCHANGED << m_currentFrame, m_inFlightFences, pending, m_swapChainExtent,
                    rcReturn, winSize, contentScale, reportsExtent, sameSurfaceBuilds >>

\* vkDeviceWaitIdle (line 1784)
RecreateWaitIdle ==
    /\ UNCHANGED << mipVars, setupVars >>
    /\ pc = "rcWaitIdle"
    /\ DeviceIdle
    /\ pc' = "rcBuild"
    /\ UNCHANGED << m_currentFrame, m_inFlightFences, pending, framebufferResized,
                    m_swapChainExtent, rcWidth, rcHeight, rcReturn, winSize, contentScale,
                    reportsExtent, resizeEvent, sameSurfaceBuilds, call >>

\* cleanupSwapChain, createSwapChain, createImageViews, createDepthResources,
\* createFramebuffers (lines 1786-1790), and the return.  createSwapChain queries the surface
\* again and stores the extent selectSwapExtent picks.  An imageExtent of zero
\* breaks the valid usage of vkCreateSwapchainKHR: the driver either fails
\* (createSwapChain throws) or creates the swapchain.
RecreateBuild ==
    /\ UNCHANGED << mipVars, setupVars >>
    /\ pc = "rcBuild"
    /\ LET extent == selectSwapExtent(SurfaceCapabilities)
       IN \E created \in BOOLEAN :
            /\ (extent.width > 0 /\ extent.height > 0) => created
            /\ IF created
               THEN /\ m_swapChainExtent' = extent
                    /\ sameSurfaceBuilds' = Min(sameSurfaceBuilds + 1, 2)
                    /\ call' = [call EXCEPT !.recreated = TRUE,
                                            !.zeroExtentCreate = (extent.width = 0 \/ extent.height = 0)]
                    /\ pc' = rcReturn
               ELSE /\ pc' = "fatal"
                    /\ call' = [call EXCEPT !.zeroExtentCreate = TRUE]
                    /\ UNCHANGED << m_swapChainExtent, sameSurfaceBuilds >>
    /\ UNCHANGED << m_currentFrame, m_inFlightFences, pending, framebufferResized, rcWidth,
                    rcHeight, rcReturn, winSize, contentScale, reportsExtent, resizeEvent >>

FrameNext ==
    \/ PollEvents
    \/ WindowShouldClose
    \/ ExitWaitIdle
    \/ Cleanup
    \/ WaitForFences
    \/ AcquireNextImage
    \/ UpdateUniformBuffer
    \/ ResetFences
    \/ RecordCommandBuffer
    \/ QueueSubmit
    \/ QueuePresent
    \/ AdvanceFrame
    \/ RecreateGetSize
    \/ RecreatePollSize
    \/ RecreateWaitEvents
    \/ RecreateWaitIdle
    \/ RecreateBuild
    \/ EnvResize
    \/ \E f \in Slots : GpuComplete(f)


\* =========================================================== generateMipmaps
\* One VkImageMemoryBarrier on a single level, as vkCmdPipelineBarrier records it.
BarrierSwapsLayouts(level, old, new, srcAccess, dstAccess, srcStage, dstStage) ==
    [kind |-> "barrier", baseMipLevel |-> level, levelCount |-> 1,
     oldLayout |-> new, newLayout |-> old,
     srcAccessMask |-> srcAccess, dstAccessMask |-> dstAccess,
     srcStage |-> srcStage, dstStage |-> dstStage]
Barrier(level, old, new, srcAccess, dstAccess, srcStage, dstStage) ==
    [kind |-> "barrier", baseMipLevel |-> level, levelCount |-> 1,
     oldLayout |-> old, newLayout |-> new,
     srcAccessMask |-> srcAccess, dstAccessMask |-> dstAccess,
     srcStage |-> srcStage, dstStage |-> dstStage]

\* dstOffsets[1] of the blit (line 756): mipWidth > 1 ? mipWidth / 2 : 1
BlitDstDimNoFloor(x) == x \div 2
BlitDstDim(x) == IF x > 1 THEN x \div 2 ELSE 1

\* if (mipWidth > 1) mipWidth /= 2;  (lines 784-785)
NextMipDimNoFloor(x) == x \div 2
NextMipDim(x) == IF x > 1 THEN x \div 2 ELSE x

\* barrier.subresourceRange.baseMipLevel = mipLevels - 1  (line 788)
LastLevelOffByOne(m) == IF m > 1 THEN m - 2 ELSE 0
LastLevel(m) == m - 1

\* The GPU executes the recorded commands in order: a barrier moves the levels
\* it covers to its newLayout, a blit changes no layout.
RECURSIVE ExecuteCommands(_, _)
ExecuteCommands(cmds, layout) ==
    IF cmds = << >>
    THEN layout
    ELSE LET c == Head(cmds)
             after == IF c.kind = "barrier"
                      THEN [l \in DOMAIN layout |->
                              IF l >= c.baseMipLevel /\ l < c.baseMipLevel + c.levelCount
                              THEN c.newLayout ELSE layout[l]]
                      ELSE layout
         IN ExecuteCommands(Tail(cmds), after)

MipInit ==
    /\ mpc = "start"
    /\ texWidth \in 1 .. MaxTexDim
    /\ texHeight \in 1 .. MaxTexDim
    /\ mipLevels \in 1 .. MaxMip
    /\ linearBlit \in BOOLEAN
    /\ mipI = 0
    /\ mipWidth = 0
    /\ mipHeight = 0
    /\ commands = << >>
    /\ cmdBuffer = "none"
    /\ imageLayout = [l \in 0 .. (mipLevels - 1) |-> "TRANSFER_DST_OPTIMAL"]

\* if (!(formatProperties.optimalTilingFeatures &
\*       VK_FORMAT_FEATURE_SAMPLED_IMAGE_FILTER_LINEAR_BIT)) throw ...  (lines 714-716)
FormatCheckOmitted(supported) == TRUE
FormatCheckPasses(supported) == supported

\* for (uint32_t i = 1; i < mipLevels; i++)  (line 733)
MipLoopRunsInclusive(i, m) == i <= m
MipLoopRuns(i, m) == i < m

\* Lines 711-716: the format must support linear blitting.
MipCheckFormat ==
    /\ UNCHANGED << frameVars, setupVars >>
    /\ mpc = "start"
    /\ mpc' = IF FormatCheckPasses(linearBlit) THEN "begin" ELSE "error"
    /\ UNCHANGED << texWidth, texHeight, mipLevels, linearBlit, mipI, mipWidth, mipHeight,
                    commands, cmdBuffer, imageLayout >>

\* Lines 718-733: beginSingleTimeCommands, mipWidth/mipHeight, i = 1, first loop test.
MipBegin ==
    /\ UNCHANGED << frameVars, setupVars >>
    /\ mpc = "begin"
    /\ cmdBuffer' = "recording"
    /\ mipWidth' = texWidth
    /\ mipHeight' = texHeight
    /\ mipI' = 1
    /\ mpc' = IF MipLoopRuns(1, mipLevels) THEN "barrierSrc" ELSE "barrierLast"
    /\ UNCHANGED << texWidth, texHeight, mipLevels, linearBlit, commands, imageLayout >>

\* Lines 734-746: level i-1, TRANSFER_DST -> TRANSFER_SRC.
MipBarrierToSrc ==
    /\ UNCHANGED << frameVars, setupVars >>
    /\ mpc = "barrierSrc"
    /\ commands' = Append(commands,
                     Barrier(mipI - 1, "TRANSFER_DST_OPTIMAL", "TRANSFER_SRC_OPTIMAL",
                             "TRANSFER_WRITE", "TRANSFER_READ", "TRANSFER", "TRANSFER"))
    /\ mpc' = "blit"
    /\ UNCHANGED << texWidth, texHeight, mipLevels, linearBlit, mipI, mipWidth, mipHeight,
                    cmdBuffer, imageLayout >>

\* Lines 748-769: blit level i-1 -> level i.
MipBlit ==
    /\ UNCHANGED << frameVars, setupVars >>
    /\ mpc = "blit"
    /\ commands' = Append(commands,
                     [kind |-> "blit",
                      srcLevel |-> mipI - 1, dstLevel |-> mipI,
                      srcWidth |-> mipWidth, srcHeight |-> mipHeight,
                      dstWidth |-> BlitDstDim(mipWidth), dstHeight |-> BlitDstDim(mipHeight),
                      srcLayout |-> "TRANSFER_SRC_OPTIMAL",
                      dstLayout |-> "TRANSFER_DST_OPTIMAL",
                      filter |-> "LINEAR"])
    /\ mpc' = "barrierRead"
    /\ UNCHANGED << texWidth, texHeight, mipLevels, linearBlit, mipI, mipWidth, mipHeight,
                    cmdBuffer, imageLayout >>

\* Lines 771-786: level i-1, TRANSFER_SRC -> SHADER_READ_ONLY; halve; i++; loop test.
MipBarrierToRead ==
    /\ UNCHANGED << frameVars, setupVars >>
    /\ mpc = "barrierRead"
    /\ commands' = Append(commands,
                     Barrier(mipI - 1, "TRANSFER_SRC_OPTIMAL", "SHADER_READ_ONLY_OPTIMAL",
                             "TRANSFER_READ", "SHADER_READ", "TRANSFER", "FRAGMENT_SHADER"))
    /\ mipWidth' = NextMipDim(mipWidth)
    /\ mipHeight' = NextMipDim(mipHeight)
    /\ mipI' = mipI + 1
    /\ mpc' = IF MipLoopRuns(mipI + 1, mipLevels) THEN "barrierSrc" ELSE "barrierLast"
    /\ UNCHANGED << texWidth, texHeight, mipLevels, linearBlit, cmdBuffer, imageLayout >>

\* Lines 788-800: level mipLevels-1, TRANSFER_DST -> SHADER_READ_ONLY.
MipBarrierLast ==
    /\ UNCHANGED << frameVars, setupVars >>
    /\ mpc = "barrierLast"
    /\ commands' = Append(commands,
                     Barrier(LastLevel(mipLevels), "TRANSFER_DST_OPTIMAL",
                             "SHADER_READ_ONLY_OPTIMAL",
                             "TRANSFER_WRITE", "SHADER_READ", "TRANSFER", "FRAGMENT_SHADER"))
    /\ mpc' = "end"
    /\ UNCHANGED << texWidth, texHeight, mipLevels, linearBlit, mipI, mipWidth, mipHeight,
                    cmdBuffer, imageLayout >>

\* Line 802: endSingleTimeCommands submits the buffer, waits for the queue to
\* be idle and frees the buffer.
MipEnd ==
    /\ UNCHANGED << frameVars, setupVars >>
    /\ mpc = "end"
    /\ imageLayout' = ExecuteCommands(commands, imageLayout)
    /\ cmdBuffer' = "freed"
    /\ mpc' = "done"
    /\ UNCHANGED << texWidth, texHeight, mipLevels, linearBlit, mipI, mipWidth, mipHeight,
                    commands >>

MipNext ==
    \/ MipCheckFormat
    \/ MipBegin
    \/ MipBarrierToSrc
    \/ MipBlit
    \/ MipBarrierToRead
    \/ MipBarrierLast
    \/ MipEnd

\* ============================================== createBuffer / createImage
\* Number of VkMemoryPropertyFlags bits the model distinguishes, and the flag
\* words built from them.
PropertyFlagBits == 2
PropertyFlagWords == 0 .. (2 ^ PropertyFlagBits - 1)

\* No memory type index yet.
NoIndex == -1

\* Bit i of the word x.
BitSet(x, i) == (x \div (2 ^ i)) % 2 = 1

\* x & y on unsigned words.
RECURSIVE BitAnd(_, _)
BitAnd(x, y) ==
    IF x = 0 \/ y = 0 THEN 0
    ELSE (x % 2) * (y % 2) + 2 * BitAnd(x \div 2, y \div 2)

\* (typeFilter & (1 << i)) &&
\* (memProperties.memoryTypes[i].propertyFlags & properties) == properties
MemoryTypeMatchesAnyFlag(filter, i, flags, requested) ==
    BitAnd(filter, 2 ^ i) # 0 /\ (requested = 0 \/ BitAnd(flags, requested) # 0)
MemoryTypeMatches(filter, i, flags, requested) ==
    BitAnd(filter, 2 ^ i) # 0 /\ BitAnd(flags, requested) = requested

\* Where findMemoryType goes when the loop ends without a match: the throw of
\* line 426 propagates out of createBuffer / createImage.
NoSuitableTypeGoesOn == "allocate"
NoSuitableType == "throwNoType"

NoResource == [created |-> FALSE, allocated |-> FALSE, bound |-> FALSE, returned |-> FALSE]

\* Memory type tables of a physical device.
MemoryTypeTables == UNION {[1 .. n -> PropertyFlagWords] : n \in 0 .. MaxMemoryTypes}

MemInit ==
    mem \in [apc : {"create"},
             resKind : {"buffer", "image"},
             memoryTypes : MemoryTypeTables,
             typeFilter : 0 .. (2 ^ MaxMemoryTypes - 1),
             properties : PropertyFlagWords,
             memI : {0},
             memTypeIndex : {NoIndex},
             resource : {NoResource}]

\* vkCreateBuffer / vkCreateImage (lines 438-441, 481-484), then
\* vkGet*MemoryRequirements and the entry of findMemoryType (i = 0).
CreateHandle ==
    /\ UNCHANGED << frameVars, mipVars, trans, chain, stage, tex, shot, swap, sync, detect >>
    /\ mem.apc = "create"
    /\ \E result \in {"VK_SUCCESS", "VK_ERROR_OUT_OF_DEVICE_MEMORY"} :
         mem' = IF result = "VK_SUCCESS"
                THEN [mem EXCEPT !.resource.created = TRUE, !.memI = 0, !.apc = "findType"]
                ELSE [mem EXCEPT !.apc = "throwCreate"]

\* One test of the loop condition of findMemoryType and, inside the loop, one
\* test of the memory type i (lines 420-426).
FindMemoryTypeStep ==
    /\ UNCHANGED << frameVars, mipVars, trans, chain, stage, tex, shot, swap, sync, detect >>
    /\ mem.apc = "findType"
    /\ mem' = IF mem.memI < Len(mem.memoryTypes)
              THEN IF MemoryTypeMatches(mem.typeFilter, mem.memI,
                                        mem.memoryTypes[mem.memI + 1], mem.properties)
                   THEN [mem EXCEPT !.memTypeIndex = mem.memI, !.apc = "allocate"]
                   ELSE [mem EXCEPT !.memI = mem.memI + 1]
              ELSE [mem EXCEPT !.apc = NoSuitableType]

\* vkAllocateMemory (lines 453-456, 496-499).
AllocateMemory ==
    /\ UNCHANGED << frameVars, mipVars, trans, chain, stage, tex, shot, swap, sync, detect >>
    /\ mem.apc = "allocate"
    /\ \E result \in {"VK_SUCCESS", "VK_ERROR_OUT_OF_DEVICE_MEMORY"} :
         mem' = IF result = "VK_SUCCESS"
                THEN [mem EXCEPT !.resource.allocated = TRUE, !.apc = "bind"]
                ELSE [mem EXCEPT !.apc = "throwAllocate"]

\* vkBindBufferMemory / vkBindImageMemory and the return of the pair
\* (lines 458-460, 501-503).
BindAndReturn ==
    /\ UNCHANGED << frameVars, mipVars, trans, chain, stage, tex, shot, swap, sync, detect >>
    /\ mem.apc = "bind"
    /\ mem' = [mem EXCEPT !.resource.bound = TRUE, !.resource.returned = TRUE,
                          !.apc = "returned"]

MemNext ==
    \/ CreateHandle
    \/ FindMemoryTypeStep
    \/ AllocateMemory
    \/ BindAndReturn

\* ==================================================== transitionImageLayout
\* Image layouts a caller can pass.
ImageLayouts == {"UNDEFINED", "GENERAL", "TRANSFER_SRC_OPTIMAL", "TRANSFER_DST_OPTIMAL",
                 "SHADER_READ_ONLY_OPTIMAL"}

\* The result of a lambda that threw std::invalid_argument.
Throws == << "throw" >>

\* The first lambda (lines 556-572): << srcAccessMask, dstAccessMask >>.
AccessMasksNoSource(old, new) ==
    IF old = "UNDEFINED" /\ new = "TRANSFER_DST_OPTIMAL"
    THEN << "0", "TRANSFER_WRITE" >>
    ELSE IF old = "TRANSFER_DST_OPTIMAL" /\ new = "SHADER_READ_ONLY_OPTIMAL"
    THEN << "0", "SHADER_READ" >>
    ELSE Throws
AccessMasks(old, new) ==
    IF old = "UNDEFINED" /\ new = "TRANSFER_DST_OPTIMAL"
    THEN << "0", "TRANSFER_WRITE" >>
    ELSE IF old = "TRANSFER_DST_OPTIMAL" /\ new = "SHADER_READ_ONLY_OPTIMAL"
    THEN << "TRANSFER_WRITE", "SHADER_READ" >>
    ELSE Throws

\* The second lambda (lines 573-589): << sourceStage, destinationStage >>.
PipelineStages(old, new) ==
    IF old = "UNDEFINED" /\ new = "TRANSFER_DST_OPTIMAL"
    THEN << "TOP_OF_PIPE", "TRANSFER" >>
    ELSE IF old = "TRANSFER_DST_OPTIMAL" /\ new = "SHADER_READ_ONLY_OPTIMAL"
    THEN << "TRANSFER", "FRAGMENT_SHADER" >>
    ELSE Throws

TransInit ==
    trans \in [tpc : {"begin"},
               oldLayout : ImageLayouts,
               newLayout : ImageLayouts,
               mipLevels : 1 .. MaxMip,
               accessMasks : {<< >>},
               stages : {<< >>},
               commands : {<< >>},
               cmdBuffer : {"none"},
               submitted : {FALSE}]

\* Line 554: beginSingleTimeCommands allocates the command buffer and begins it.
TransBegin ==
    /\ UNCHANGED << frameVars, mipVars, mem, chain, stage, tex, shot, swap, sync, detect >>
    /\ trans.tpc = "begin"
    /\ trans' = [trans EXCEPT !.cmdBuffer = "recording", !.tpc = "access"]

\* Lines 556-572.
TransSelectAccess ==
    /\ UNCHANGED << frameVars, mipVars, mem, chain, stage, tex, shot, swap, sync, detect >>
    /\ trans.tpc = "access"
    /\ LET masks == AccessMasks(trans.oldLayout, trans.newLayout)
       IN trans' = IF masks = Throws
                   THEN [trans EXCEPT !.tpc = "throw"]
                   ELSE [trans EXCEPT !.accessMasks = masks, !.tpc = "stages"]

\* Lines 573-589.
TransSelectStages ==
    /\ UNCHANGED << frameVars, mipVars, mem, chain, stage, tex, shot, swap, sync, detect >>
    /\ trans.tpc = "stages"
    /\ LET stages == PipelineStages(trans.oldLayout, trans.newLayout)
       IN trans' = IF stages = Throws
                   THEN [trans EXCEPT !.tpc = "throw"]
                   ELSE [trans EXCEPT !.stages = stages, !.tpc = "barrier"]

\* Lines 591-610: the barrier over levels 0 .. mipLevels-1 and vkCmdPipelineBarrier.
TransRecordBarrier ==
    /\ UNCHANGED << frameVars, mipVars, mem, chain, stage, tex, shot, swap, sync, detect >>
    /\ trans.tpc = "barrier"
    /\ trans' = [trans EXCEPT
                   !.commands = Append(trans.commands,
                       [kind |-> "barrier", baseMipLevel |-> 0,
                        levelCount |-> trans.mipLevels,
                        oldLayout |-> trans.oldLayout, newLayout |-> trans.newLayout,
                        srcAccessMask |-> trans.accessMasks[1],
                        dstAccessMask |-> trans.accessMasks[2],
                        srcStage |-> trans.stages[1], dstStage |-> trans.stages[2]]),
                   !.tpc = "end"]

\* Line 612: endSingleTimeCommands ends the command buffer, submits it, waits
\* for the queue to idle and frees it.
TransEnd ==
    /\ UNCHANGED << frameVars, mipVars, mem, chain, stage, tex, shot, swap, sync, detect >>
    /\ trans.tpc = "end"
    /\ trans' = [trans EXCEPT !.submitted = TRUE, !.cmdBuffer = "freed", !.tpc = "done"]

TransNext ==
    \/ TransBegin
    \/ TransSelectAccess
    \/ TransSelectStages
    \/ TransRecordBarrier
    \/ TransEnd

\* ========================================================= createSwapChain
\* The imageCount lambda (lines 1186-1193).
ImageCountUncapped(caps) == caps.minImageCount + 1
ImageCount(caps) ==
    LET count == caps.minImageCount + 1
    IN IF caps.maxImageCount > 0 /\ count > caps.maxImageCount
       THEN caps.maxImageCount
       ELSE count

\* Capabilities a surface reports for a window of the current size: either
\* its extent is the framebuffer's, or it leaves the extent to the caller and
\* gives bounds; maxImageCount is 0 (no limit) or at least minImageCount.
SurfaceCapabilitySets ==
    LET Sentinel == [width |-> UINT32_MAX, height |-> UINT32_MAX]
        Extents == [width : 1 .. MaxCapExtent, height : 1 .. MaxCapExtent]
        ExtentCaps ==
            {[currentExtent |-> FramebufferSize, minImageExtent |-> FramebufferSize,
              maxImageExtent |-> FramebufferSize]}
            \cup {[currentExtent |-> Sentinel, minImageExtent |-> p[1],
                   maxImageExtent |-> p[2]] :
                    p \in {q \in Extents \X Extents :
                             /\ q[1].width <= q[2].width
                             /\ q[1].height <= q[2].height}}
        Counts == {c \in (1 .. MaxMinImageCount) \X (0 .. (MaxMinImageCount + 1)) :
                     c[2] = 0 \/ c[2] >= c[1]}
    IN {[currentExtent |-> ec[1].currentExtent, minImageExtent |-> ec[1].minImageExtent,
         maxImageExtent |-> ec[1].maxImageExtent, minImageCount |-> ec[2][1],
         maxImageCount |-> ec[2][2]] : ec \in ExtentCaps \X Counts}

ChainInit ==
    chain \in [cpc : {"extent"},
               capabilities : SurfaceCapabilitySets,
               extent : {[width |-> 0, height |-> 0]},
               imageCount : {0}]

\* Line 1185: extent = selectSwapExtent(swapChainSupport.capabilities).
ChainSelectExtent ==
    /\ UNCHANGED << frameVars, mipVars, mem, trans, stage, tex, shot, swap, sync, detect >>
    /\ chain.cpc = "extent"
    /\ chain' = [chain EXCEPT !.extent = selectSwapExtent(chain.capabilities),
                              !.cpc = "imageCount"]

\* Lines 1186-1193.
ChainSelectImageCount ==
    /\ UNCHANGED << frameVars, mipVars, mem, trans, stage, tex, shot, swap, sync, detect >>
    /\ chain.cpc = "imageCount"
    /\ chain' = [chain EXCEPT !.imageCount = ImageCount(chain.capabilities),
                              !.cpc = "create"]

\* vkCreateSwapchainKHR with minImageCount = imageCount and imageExtent = extent
\* (lines 1240-1243).
ChainCreate ==
    /\ UNCHANGED << frameVars, mipVars, mem, trans, stage, tex, shot, swap, sync, detect >>
    /\ chain.cpc = "create"
    /\ \E result \in {"VK_SUCCESS", "VK_ERROR_INITIALIZATION_FAILED"} :
         chain' = [chain EXCEPT !.cpc = IF result = "VK_SUCCESS" THEN "created" ELSE "throw"]

ChainNext ==
    \/ ChainSelectExtent
    \/ ChainSelectImageCount
    \/ ChainCreate

\* ============================================ createTextureImage: staging
\* Channel counts an image file can have.
FileChannelCounts == 1 .. 4

\* uint32_t arithmetic (StbTextureImage::width, height, channels, lines 70-80)
\* wraps modulo UintModulus; IntMax is the largest value of int.
UintModulus == 2 ^ WordBits
IntMax == 2 ^ (WordBits - 1) - 1

\* stbi_load (line 98) with a forced component count allocates the decoded
\* array through an overflow-checked width * height * components in int and
\* fails when the product does not fit.
StbDecodesAnySize(w, h, comp) == TRUE
StbDecodes(w, h, comp) == w * h * comp <= IntMax

StageInit ==
    stage \in [spc : {"load"},
               fileWidth : 1 .. MaxTexDim,
               fileHeight : 1 .. MaxTexDim,
               fileChannels : FileChannelCounts,
               m_width : {0},
               m_height : {0},
               m_channels : {0},
               pixelBytes : {0},
               imageSize : {0},
               stagingBytes : {0},
               bytesRead : {0}]

\* StbTextureLoader::load (lines 94-113).  stbi_load with a forced component
\* count decodes width * height * STBI_rgb_alpha bytes and stores the channel
\* count of the file, not the forced one, through its channels pointer; it
\* returns null when the file cannot be decoded.
StbLoad ==
    /\ UNCHANGED << frameVars, mipVars, mem, trans, chain, tex, shot, swap, sync, detect >>
    /\ stage.spc = "load"
    /\ \E decoded \in BOOLEAN :
         /\ decoded => StbDecodes(stage.fileWidth, stage.fileHeight, STBI_rgb_alpha)
         /\ stage' = IF decoded
                  THEN [stage EXCEPT
                          !.m_width = stage.fileWidth,
                          !.m_height = stage.fileHeight,
                          !.m_channels = stage.fileChannels,
                          !.pixelBytes = stage.fileWidth * stage.fileHeight * STBI_rgb_alpha,
                          !.spc = "size"]
                  ELSE [stage EXCEPT !.spc = "throw"]

\* Lines 809-810: depth = channels() + 1; imageSize = width() * height() * depth.
ComputeImageSize ==
    /\ UNCHANGED << frameVars, mipVars, mem, trans, chain, tex, shot, swap, sync, detect >>
    /\ stage.spc = "size"
    /\ LET depth == stage.m_channels + 1
       IN stage' = [stage EXCEPT
                      !.imageSize = (stage.m_width * stage.m_height * depth) % UintModulus,
                      !.spc = "staging"]

\* Lines 812-816: createBuffer(imageSize, TRANSFER_SRC, HOST_VISIBLE | HOST_COHERENT).
CreateStagingBuffer ==
    /\ UNCHANGED << frameVars, mipVars, mem, trans, chain, tex, shot, swap, sync, detect >>
    /\ stage.spc = "staging"
    /\ stage' = [stage EXCEPT !.stagingBytes = stage.imageSize, !.spc = "copy"]

\* Lines 818-821: memcpy(data, &stbTextureImage.pixels(), imageSize) reads
\* imageSize bytes starting at the first decoded pixel.
CopyPixels ==
    /\ UNCHANGED << frameVars, mipVars, mem, trans, chain, tex, shot, swap, sync, detect >>
    /\ stage.spc = "copy"
    /\ stage' = [stage EXCEPT !.bytesRead = stage.imageSize, !.spc = "copied"]

StageNext ==
    \/ StbLoad
    \/ ComputeImageSize
    \/ CreateStagingBuffer
    \/ CopyPixels

\* ====================================================== createTextureImage
\* The image part of createTextureImage (lines 808, 823-855): the created image
\* is transitioned, filled from the staging buffer and given its mip chain.

\* mipLevels = floor(log2(max(width, height))) + 1  (line 808)
RECURSIVE Log2Floor(_)
Log2Floor(n) == IF n <= 1 THEN 0 ELSE 1 + Log2Floor(n \div 2)

MipLevelsForSmallerSide(w, h) == Log2Floor(Min(w, h)) + 1
MipLevelsFor(w, h) == Log2Floor(Max(w, h)) + 1

\* The level count createTextureImage passes to transitionImageLayout (line 839).
TransitionLevelsBaseOnly(m) == 1
TransitionLevels(m) == m

\* vkCreateImage with initialLayout VK_IMAGE_LAYOUT_UNDEFINED (line 474): every
\* level of the new image is in the undefined layout.
CreatedLayout(m) == [l \in 0 .. (m - 1) |-> "UNDEFINED"]

TexInit ==
    \E w \in 1 .. MaxTexDim, h \in 1 .. MaxTexDim, lb \in BOOLEAN :
        tex = [xpc |-> "transition", width |-> w, height |-> h,
               mipLevels |-> MipLevelsFor(w, h), linearBlit |-> lb,
               layout |-> CreatedLayout(MipLevelsFor(w, h)),
               history |-> << >>, staging |-> "alive"]

\* Lines 834-840: the call transitionImageLayout(textureImage, format,
\* UNDEFINED, TRANSFER_DST_OPTIMAL, mipLevels).
TexCallTransition ==
    /\ UNCHANGED << frameVars, mipVars, mem, chain, stage, shot, swap, sync, detect >>
    /\ tex.xpc = "transition"
    /\ trans' = [tpc |-> "begin",
                 oldLayout |-> "UNDEFINED",
                 newLayout |-> "TRANSFER_DST_OPTIMAL",
                 mipLevels |-> TransitionLevels(tex.mipLevels),
                 accessMasks |-> << >>, stages |-> << >>, commands |-> << >>,
                 cmdBuffer |-> "none", submitted |-> FALSE]
    /\ tex' = [tex EXCEPT !.xpc = "inTransition"]

\* transitionImageLayout returns: its submission has executed on the image.
TexTransitionReturns ==
    /\ UNCHANGED << frameVars, mipVars, mem, chain, stage, shot, swap, sync, detect >>
    /\ tex.xpc = "inTransition"
    /\ trans.tpc = "done"
    /\ tex' = [tex EXCEPT !.layout = ExecuteCommands(trans.commands, tex.layout),
                          !.history = tex.history \o trans.commands,
                          !.xpc = "copy"]
    /\ trans' = [tpc |-> "idle"]

\* Lines 841-846 and copyBufferToImage (615-633): one copy of the staging buffer
\* into level 0, which the command names as TRANSFER_DST_OPTIMAL, recorded in
\* a single-use command buffer, submitted and waited for.
CopyBufferToImage(width, height) ==
    [kind |-> "copy", dstLevel |-> 0, dstLayout |-> "TRANSFER_DST_OPTIMAL",
     width |-> width, height |-> height]

TexCopyBufferToImage ==
    /\ UNCHANGED << frameVars, mipVars, mem, trans, chain, stage, shot, swap, sync, detect >>
    /\ tex.xpc = "copy"
    /\ tex' = [tex EXCEPT
                 !.history = Append(tex.history, CopyBufferToImage(tex.width, tex.height)),
                 !.xpc = "destroyStaging"]

\* Lines 849-850: vkDestroyBuffer and vkFreeMemory of the staging buffer.
TexDestroyStaging ==
    /\ UNCHANGED << frameVars, mipVars, mem, trans, chain, stage, shot, swap, sync, detect >>
    /\ tex.xpc = "destroyStaging"
    /\ tex' = [tex EXCEPT !.staging = "destroyed", !.xpc = "mipmaps"]

\* Line 852: the call generateMipmaps(textureImage, format, width, height,
\* mipLevels) on the image as the preceding submissions left it.
TexCallGenerateMipmaps ==
    /\ UNCHANGED << frameVars, mem, trans, chain, stage, shot, swap, sync, detect >>
    /\ tex.xpc = "mipmaps"
    /\ mpc' = "start"
    /\ texWidth' = tex.width
    /\ texHeight' = tex.height
    /\ mipLevels' = tex.mipLevels
    /\ linearBlit' = tex.linearBlit
    /\ mipI' = 0
    /\ mipWidth' = 0
    /\ mipHeight' = 0
    /\ commands' = << >>
    /\ cmdBuffer' = "none"
    /\ imageLayout' = tex.layout
    /\ tex' = [tex EXCEPT !.xpc = "inMipmaps"]

\* generateMipmaps returns and lines 853-855 store the image, or its
\* exception leaves createTextureImage.
TexMipmapsReturn ==
    /\ UNCHANGED << frameVars, mipVars, mem, trans, chain, stage, shot, swap, sync, detect >>
    /\ tex.xpc = "inMipmaps"
    /\ mpc \in {"done", "error"}
    /\ tex' = IF mpc = "done"
              THEN [tex EXCEPT !.layout = imageLayout,
                               !.history = tex.history \o commands,
                               !.xpc = "done"]
              ELSE [tex EXCEPT !.xpc = "throw"]

TexNext ==
    \/ TexCallTransition
    \/ TransNext
    \/ TexTransitionReturns
    \/ TexCopyBufferToImage
    \/ TexDestroyStaging
    \/ TexCallGenerateMipmaps
    \/ MipNext
    \/ TexMipmapsReturn

\* ============================================== single-use command buffers
\* createVertexBuffer (lines 907-940) and createIndexBuffer (941-969) with
\* copyBuffer (542-551), beginSingleTimeCommands (506-525) and
\* endSingleTimeCommands (527-540), next to the queue that executes the copy.

BufferKinds == {"vertex", "index"}

ShotInit ==
    shot \in [vpc : {"createStaging"},
              kind : BufferKinds,
              bufferSize : 1 .. MaxBufferSize,
              staging : {"none"},
              filled : {0},
              target : {"none"},
              cmdBuffer : {"none"},
              submission : {"none"},
              copied : {0},
              log : {<< >>},
              fault : {FALSE}]

\* Lines 912-916: createBuffer for the staging buffer.
ShotCreateStaging ==
    /\ UNCHANGED << frameVars, mipVars, mem, trans, chain, stage, tex, swap, sync, detect >>
    /\ shot.vpc = "createStaging"
    /\ shot' = [shot EXCEPT !.staging = "alive", !.vpc = "fill"]

\* Lines 918-921: vkMapMemory, memcpy of bufferSize bytes, vkUnmapMemory.
ShotFillStaging ==
    /\ UNCHANGED << frameVars, mipVars, mem, trans, chain, stage, tex, swap, sync, detect >>
    /\ shot.vpc = "fill"
    /\ shot' = [shot EXCEPT !.filled = shot.bufferSize, !.vpc = "createTarget"]

\* Lines 927-931: createBuffer for the device-local buffer.
ShotCreateTarget ==
    /\ UNCHANGED << frameVars, mipVars, mem, trans, chain, stage, tex, swap, sync, detect >>
    /\ shot.vpc = "createTarget"
    /\ shot' = [shot EXCEPT !.target = "alive", !.vpc = "begin"]

\* Lines 933, 543 and beginSingleTimeCommands: vkAllocateCommandBuffers and
\* vkBeginCommandBuffer.
BeginSingleTimeCommands ==
    /\ UNCHANGED << frameVars, mipVars, mem, trans, chain, stage, tex, swap, sync, detect >>
    /\ shot.vpc = "begin"
    /\ shot' = [shot EXCEPT !.cmdBuffer = "recording",
                            !.log = Append(shot.log, "allocate"),
                            !.vpc = "record"]

\* Lines 545-548: vkCmdCopyBuffer of size bytes from the staging buffer.
ShotRecordCopy ==
    /\ UNCHANGED << frameVars, mipVars, mem, trans, chain, stage, tex, swap, sync, detect >>
    /\ shot.vpc = "record"
    /\ shot' = [shot EXCEPT !.log = Append(shot.log, "record"), !.vpc = "submit"]

\* Lines 528-536: vkEndCommandBuffer and vkQueueSubmit without a fence.
EndAndSubmit ==
    /\ UNCHANGED << frameVars, mipVars, mem, trans, chain, stage, tex, swap, sync, detect >>
    /\ shot.vpc = "submit"
    /\ shot' = [shot EXCEPT !.cmdBuffer = "pending",
                            !.submission = "pending",
                            !.log = Append(shot.log, "submit"),
                            !.vpc = "wait"]

\* vkQueueWaitIdle (line 537) returns once the queue has no work left.
QueueWaitReturnsAtOnce(submission) == TRUE
QueueWaitReturns(submission) == submission /= "pending"

QueueWaitIdle ==
    /\ UNCHANGED << frameVars, mipVars, mem, trans, chain, stage, tex, swap, sync, detect >>
    /\ shot.vpc = "wait"
    /\ QueueWaitReturns(shot.submission)
    /\ shot' = [shot EXCEPT !.log = Append(shot.log, "wait"), !.vpc = "free"]

\* vkFreeCommandBuffers (line 539) and the return to createVertexBuffer.
FreeCommandBuffer ==
    /\ UNCHANGED << frameVars, mipVars, mem, trans, chain, stage, tex, swap, sync, detect >>
    /\ shot.vpc = "free"
    /\ shot' = [shot EXCEPT !.cmdBuffer = "freed",
                            !.log = Append(shot.log, "free"),
                            !.vpc = "destroyStaging"]

\* Lines 935-936: vkDestroyBuffer and vkFreeMemory of the staging buffer.
ShotDestroyStaging ==
    /\ UNCHANGED << frameVars, mipVars, mem, trans, chain, stage, tex, swap, sync, detect >>
    /\ shot.vpc = "destroyStaging"
    /\ shot' = [shot EXCEPT !.staging = "destroyed",
                            !.log = Append(shot.log, "destroyStaging"),
                            !.vpc = "store"]

\* Lines 938-939: the buffer and its memory are stored in the App.
ShotStore ==
    /\ UNCHANGED << frameVars, mipVars, mem, trans, chain, stage, tex, swap, sync, detect >>
    /\ shot.vpc = "store"
    /\ shot' = [shot EXCEPT !.vpc = "done"]

\* The queue executes the submitted copy, a unit at a time, reading the
\* command buffer and the staging buffer; touching either after its release is
\* a fault.
QueueCopies ==
    /\ UNCHANGED << frameVars, mipVars, mem, trans, chain, stage, tex, swap, sync, detect >>
    /\ shot.submission = "pending"
    /\ ~shot.fault
    /\ shot.copied < shot.bufferSize
    /\ shot' = IF shot.cmdBuffer = "freed" \/ shot.staging = "destroyed"
               THEN [shot EXCEPT !.fault = TRUE]
               ELSE [shot EXCEPT !.copied = shot.copied + 1]

\* The queue finishes the submission.
QueueCompletes ==
    /\ UNCHANGED << frameVars, mipVars, mem, trans, chain, stage, tex, swap, sync, detect >>
    /\ shot.submission = "pending"
    /\ shot.copied = shot.bufferSize
    /\ shot' = [shot EXCEPT !.submission = "complete"]

ShotNext ==
    \/ ShotCreateStaging
    \/ ShotFillStaging
    \/ ShotCreateTarget
    \/ BeginSingleTimeCommands
    \/ ShotRecordCopy
    \/ EndAndSubmit
    \/ QueueWaitIdle
    \/ FreeCommandBuffer
    \/ ShotDestroyStaging
    \/ ShotStore
    \/ QueueCopies
    \/ QueueCompletes

\* ======================================== recreateSwapChain, step by step
\* recreateSwapChain from its device-idle wait on (lines 1784-1790) with
\* cleanupSwapChain (1759-1773), createSwapChain's stores (1251-1254),
\* createImageViews (1257-1265), createDepthResources (689-707) and
\* createFramebuffers (1514-1548), and the use the next frame makes of the
\* result (lines 1694-1702 and 1569-1573).  An object group is a record of the
\* creation it comes from and its number of members; gen 0 is a destroyed one.

Destroyed == [gen |-> 0, count |-> 0]

SwapObjects == {"swapChain", "imageViews", "depth", "framebuffers"}

\* The state initApp (lines 395-400) or an earlier recreation has left, and
\* the frame slots' outstanding GPU work when draw() calls recreateSwapChain.
SwapInit ==
    \E n \in 1 .. MaxSwapImages :
        swap = [wpc |-> "waitIdle", gen |-> 1,
                swapChain |-> [gen |-> 1, count |-> n],
                imageViews |-> [gen |-> 1, count |-> n],
                depth |-> [gen |-> 1, count |-> 1],
                framebuffers |-> [gen |-> 1, count |-> n],
                busyAtEntry |-> {f \in Slots : pending[f] > 0},
                log |-> << >>,
                used |-> << >>]

\* vkDeviceWaitIdle (line 1784)
SwapWaitIdle ==
    /\ UNCHANGED << frameVars, mipVars, mem, trans, chain, stage, tex, shot, sync, detect >>
    /\ swap.wpc = "waitIdle"
    /\ DeviceIdle
    /\ swap' = [swap EXCEPT !.log = Append(swap.log, "waitIdle"), !.wpc = "destroyDepth"]

\* Lines 1760-1762: the depth image view, the depth image and its memory.
SwapDestroyDepth ==
    /\ UNCHANGED << frameVars, mipVars, mem, trans, chain, stage, tex, shot, sync, detect >>
    /\ swap.wpc = "destroyDepth"
    /\ swap' = [swap EXCEPT !.depth = Destroyed,
                            !.log = swap.log \o << "depthView", "depthImage", "depthMemory" >>,
                            !.wpc = "destroyFramebuffers"]

\* Lines 1764-1766: every framebuffer.
SwapDestroyFramebuffers ==
    /\ UNCHANGED << frameVars, mipVars, mem, trans, chain, stage, tex, shot, sync, detect >>
    /\ swap.wpc = "destroyFramebuffers"
    /\ swap' = [swap EXCEPT !.framebuffers = Destroyed,
                            !.log = Append(swap.log, "framebuffers"),
                            !.wpc = "destroyImageViews"]

\* Lines 1768-1770: every swapchain image view.
SwapDestroyImageViews ==
    /\ UNCHANGED << frameVars, mipVars, mem, trans, chain, stage, tex, shot, sync, detect >>
    /\ swap.wpc = "destroyImageViews"
    /\ swap' = [swap EXCEPT !.imageViews = Destroyed,
                            !.log = Append(swap.log, "imageViews"),
                            !.wpc = "destroySwapchain"]

\* Line 1772: vkDestroySwapchainKHR.
SwapDestroySwapchain ==
    /\ UNCHANGED << frameVars, mipVars, mem, trans, chain, stage, tex, shot, sync, detect >>
    /\ swap.wpc = "destroySwapchain"
    /\ swap' = [swap EXCEPT !.swapChain = Destroyed,
                            !.gen = swap.gen + 1,
                            !.log = Append(swap.log, "swapchain"),
                            !.wpc = "createSwapChain"]

\* createSwapChain (line 1787): vkCreateSwapchainKHR fails and the function
\* throws (1240-1243), or the driver makes a swapchain of some number of images
\* and the members are stored (1245-1254).
SwapCreateSwapChain ==
    /\ UNCHANGED << frameVars, mipVars, mem, trans, chain, stage, tex, shot, sync, detect >>
    /\ swap.wpc = "createSwapChain"
    /\ \/ swap' = [swap EXCEPT !.wpc = "throw"]
       \/ \E n \in 1 .. MaxSwapImages :
            swap' = [swap EXCEPT !.swapChain = [gen |-> swap.gen, count |-> n],
                                 !.log = Append(swap.log, "createSwapChain"),
                                 !.wpc = "createImageViews"]

\* createImageViews (line 1788): one view per m_swapChainImages entry, stored
\* when all are made; createImageView throws when vkCreateImageView fails.
NewImageViews(s) == [gen |-> s.gen, count |-> s.swapChain.count]

SwapCreateImageViews ==
    /\ UNCHANGED << frameVars, mipVars, mem, trans, chain, stage, tex, shot, sync, detect >>
    /\ swap.wpc = "createImageViews"
    /\ \/ swap' = [swap EXCEPT !.wpc = "throw"]
       \/ swap' = [swap EXCEPT !.imageViews = NewImageViews(swap),
                               !.log = Append(swap.log, "createImageViews"),
                               !.wpc = "createDepthResources"]

\* createDepthResources (line 1789): createImage or createImageView throws, or
\* the three depth members are stored.
SwapCreateDepthResources ==
    /\ UNCHANGED << frameVars, mipVars, mem, trans, chain, stage, tex, shot, sync, detect >>
    /\ swap.wpc = "createDepthResources"
    /\ \/ swap' = [swap EXCEPT !.wpc = "throw"]
       \/ swap' = [swap EXCEPT !.depth = [gen |-> swap.gen, count |-> 1],
                               !.log = Append(swap.log, "createDepthResources"),
                               !.wpc = "createFramebuffers"]

\* createFramebuffers (line 1790): one framebuffer per m_swapChainImageViews
\* entry, stored when all are made; throws when vkCreateFramebuffer fails.
NewFramebuffersKeepsOld(s) == [gen |-> s.gen, count |-> s.framebuffers.count]
NewFramebuffers(s) == [gen |-> s.gen, count |-> s.imageViews.count]

SwapCreateFramebuffers ==
    /\ UNCHANGED << frameVars, mipVars, mem, trans, chain, stage, tex, shot, sync, detect >>
    /\ swap.wpc = "createFramebuffers"
    /\ \/ swap' = [swap EXCEPT !.wpc = "throw"]
       \/ swap' = [swap EXCEPT !.framebuffers = NewFramebuffers(swap),
                               !.log = Append(swap.log, "createFramebuffers"),
                               !.wpc = "done"]

\* The next draw() that gets past acquisition: vkAcquireNextImageKHR gives an
\* index of a swapchain image (1694-1702) and recordCommandBuffer reads
\* m_swapChainFramebuffers[imageIndex] (1572).
SwapFrameUses ==
    /\ UNCHANGED << frameVars, mipVars, mem, trans, chain, stage, tex, shot, sync, detect >>
    /\ swap.wpc = "done"
    /\ \E imageIndex \in 0 .. (swap.swapChain.count - 1) :
         swap' = [swap EXCEPT !.used = << imageIndex >>, !.wpc = "frame"]

SwapNext ==
    \/ \E f \in Slots : GpuComplete(f)
    \/ SwapWaitIdle
    \/ SwapDestroyDepth
    \/ SwapDestroyFramebuffers
    \/ SwapDestroyImageViews
    \/ SwapDestroySwapchain
    \/ SwapCreateSwapChain
    \/ SwapCreateImageViews
    \/ SwapCreateDepthResources
    \/ SwapCreateFramebuffers
    \/ SwapFrameUses

\* ==================================================== draw(): semaphores
\* The semaphores draw() hands to vkAcquireNextImageKHR, vkQueueSubmit and
\* vkQueuePresentKHR (lines 1691-1748), next to the graphics queue and the
\* presentation engine, which act on their own.  An image is with the
\* presentation engine ("engine"), handed out by an acquire that has not
\* completed ("acquiring"), acquired, being written, or rendered.

\* m_imageAvailableSemaphores[m_currentFrame] is the wait semaphore of the
\* submission (line 1717), at VK_PIPELINE_STAGE_COLOR_ATTACHMENT_OUTPUT_BIT.
WaitSemaphore(f) == f

\* m_renderFinishedSemaphores[m_currentFrame] is its signal semaphore (line 1719).
SignalSemaphore(f) == f

\* presentInfo.pWaitSemaphores = signalSemaphores.data() (line 1741).
PresentWaitSemaphoreOfNextSlot(f) == (f + 1) % MAX_FRAMES_IN_FLIGHT
PresentWaitSemaphore(f) == SignalSemaphore(f)

\* createRenderingSyncObjects: the fences start signaled, the semaphores
\* unsignaled; the swapchain's images are with the presentation engine.
SyncInit ==
    \E n \in 1 .. MaxSwapImages :
        sync = [ypc |-> "waitFence", slot |-> 0, imageIndex |-> 0, ret |-> "waitFence",
                fence |-> [f \in Slots |-> TRUE],
                imageAvailable |-> [f \in Slots |-> 0],
                renderFinished |-> [f \in Slots |-> 0],
                images |-> [i \in 0 .. (n - 1) |-> [state |-> "engine", sem |-> 0]],
                gpu |-> << >>,
                presents |-> << >>,
                fault |-> "none"]

\* vkWaitForFences (line 1691)
SyncWaitForFences ==
    /\ UNCHANGED << frameVars, mipVars, mem, trans, chain, stage, tex, shot, swap, detect >>
    /\ sync.ypc = "waitFence"
    /\ sync.fence[sync.slot]
    /\ sync' = [sync EXCEPT !.ypc = "acquire"]

\* vkAcquireNextImageKHR (lines 1693-1708): out of date, and draw() recreates
\* the swapchain and returns; or the index of an image the presentation engine
\* will release, with the slot's image-available semaphore to be signaled when
\* it has.
SyncAcquire ==
    /\ UNCHANGED << frameVars, mipVars, mem, trans, chain, stage, tex, shot, swap, detect >>
    /\ sync.ypc = "acquire"
    /\ \/ sync' = [sync EXCEPT !.ypc = "recreate", !.ret = "waitFence"]
       \/ \E i \in DOMAIN sync.images :
            /\ sync.images[i].state = "engine"
            /\ sync' = [sync EXCEPT !.images[i] = [state |-> "acquiring", sem |-> sync.slot],
                                    !.imageIndex = i,
                                    !.ypc = "resetFence"]

\* updateUniformBuffer, vkResetFences, vkResetCommandBuffer and
\* recordCommandBuffer (lines 1710-1715).
SyncResetAndRecord ==
    /\ UNCHANGED << frameVars, mipVars, mem, trans, chain, stage, tex, shot, swap, detect >>
    /\ sync.ypc = "resetFence"
    /\ sync' = [sync EXCEPT !.fence[sync.slot] = FALSE, !.ypc = "submit"]

\* vkQueueSubmit (lines 1717-1735)
SyncSubmit ==
    /\ UNCHANGED << frameVars, mipVars, mem, trans, chain, stage, tex, shot, swap, detect >>
    /\ sync.ypc = "submit"
    /\ sync' = [sync EXCEPT
                  !.gpu = Append(sync.gpu,
                                 [slot |-> sync.slot, image |-> sync.imageIndex,
                                  waitSem |-> WaitSemaphore(sync.slot),
                                  signalSem |-> SignalSemaphore(sync.slot),
                                  started |-> FALSE]),
                  !.ypc = "present"]

\* vkQueuePresentKHR (lines 1737-1754): the request is queued; draw() goes on
\* to the frame advance, through recreateSwapChain or not.
SyncPresent ==
    /\ UNCHANGED << frameVars, mipVars, mem, trans, chain, stage, tex, shot, swap, detect >>
    /\ sync.ypc = "present"
    /\ \E recreate \in BOOLEAN :
         sync' = [sync EXCEPT
                    !.presents = Append(sync.presents,
                                        [slot |-> sync.slot, image |-> sync.imageIndex,
                                         waitSem |-> PresentWaitSemaphore(sync.slot)]),
                    !.ret = "advance",
                    !.ypc = IF recreate THEN "recreate" ELSE "advance"]

\* Line 1756
SyncAdvance ==
    /\ UNCHANGED << frameVars, mipVars, mem, trans, chain, stage, tex, shot, swap, detect >>
    /\ sync.ypc = "advance"
    /\ sync' = [sync EXCEPT !.slot = (sync.slot + 1) % MAX_FRAMES_IN_FLIGHT,
                            !.ypc = "waitFence"]

\* recreateSwapChain: vkDeviceWaitIdle returns when the queues have nothing
\* left, and the new swapchain's images are with the presentation engine.
SyncRecreate ==
    /\ UNCHANGED << frameVars, mipVars, mem, trans, chain, stage, tex, shot, swap, detect >>
    /\ sync.ypc = "recreate"
    /\ sync.gpu = << >>
    /\ sync.presents = << >>
    /\ sync' = [sync EXCEPT
                  !.images = [i \in DOMAIN sync.images |-> [state |-> "engine", sem |-> 0]],
                  !.ypc = sync.ret]

\* The presentation engine releases an acquired image: the acquisition
\* completes and its semaphore is signaled.
SyncImageReady ==
    /\ UNCHANGED << frameVars, mipVars, mem, trans, chain, stage, tex, shot, swap, detect >>
    /\ \E i \in DOMAIN sync.images :
         /\ sync.images[i].state = "acquiring"
         /\ sync' = [sync EXCEPT !.images[i].state = "acquired",
                                 !.imageAvailable[sync.images[i].sem] = 1]

\* A submission reaches color-attachment output once its wait semaphore is
\* signaled, unsignals it and starts writing the image.
SubmissionMayStartAtOnce(s) == TRUE
SubmissionMayStart(s) == s = 1

SyncGpuStarts ==
    /\ UNCHANGED << frameVars, mipVars, mem, trans, chain, stage, tex, shot, swap, detect >>
    /\ \E k \in DOMAIN sync.gpu :
         LET b == sync.gpu[k]
         IN /\ ~b.started
            /\ \A j \in 1 .. (k - 1) : sync.gpu[j].started
            /\ SubmissionMayStart(sync.imageAvailable[b.waitSem])
            /\ sync' = [sync EXCEPT
                          !.imageAvailable[b.waitSem] = 0,
                          !.gpu[k].started = TRUE,
                          !.images[b.image].state = "writing",
                          !.fault = IF sync.images[b.image].state = "acquired"
                                    THEN sync.fault
                                    ELSE "writtenBeforeAcquired"]

\* A submission finishes: the image is rendered, the signal semaphore and the
\* slot's fence are signaled.  Signaling a semaphore that is still signaled is
\* not valid usage; the signal is then either lost or kept as a second one.
SyncGpuFinishes ==
    /\ UNCHANGED << frameVars, mipVars, mem, trans, chain, stage, tex, shot, swap, detect >>
    /\ sync.gpu /= << >>
    /\ LET b == sync.gpu[1]
       IN /\ b.started
          /\ \E v \in {1, Min(sync.renderFinished[b.signalSem] + 1, 2)} :
               /\ v >= sync.renderFinished[b.signalSem]
               /\ sync' = [sync EXCEPT
                             !.gpu = Tail(sync.gpu),
                             !.renderFinished[b.signalSem] = v,
                             !.fence[b.slot] = TRUE,
                             !.images[b.image].state = "rendered"]

\* The presentation engine processes the oldest present request once its wait
\* semaphore is signaled, and takes the image back.
SyncPresentExecutes ==
    /\ UNCHANGED << frameVars, mipVars, mem, trans, chain, stage, tex, shot, swap, detect >>
    /\ sync.presents /= << >>
    /\ LET p == sync.presents[1]
       IN /\ sync.renderFinished[p.waitSem] > 0
          /\ sync' = [sync EXCEPT
                        !.presents = Tail(sync.presents),
                        !.renderFinished[p.waitSem] = sync.renderFinished[p.waitSem] - 1,
                        !.images[p.image].state = "engine",
                        !.fault = IF sync.images[p.image].state = "rendered"
                                  THEN sync.fault
                                  ELSE "presentedBeforeRendered"]

SyncNext ==
    \/ SyncWaitForFences
    \/ SyncAcquire
    \/ SyncResetAndRecord
    \/ SyncSubmit
    \/ SyncPresent
    \/ SyncAdvance
    \/ SyncRecreate
    \/ SyncImageReady
    \/ SyncGpuStarts
    \/ SyncGpuFinishes
    \/ SyncPresentExecutes

\* ------------------------------- detectMissingRequiredDeviceExtensions
\* PlatformCapabilities.cpp, lines 102-123.

\* Extension names a requirement list or a device's list is made of.
ExtensionNames == {"VK_KHR_swapchain", "VK_KHR_maintenance1", "VK_EXT_memory_budget"}

RECURSIVE SeqsUpTo(_, _)
SeqsUpTo(S, n) ==
    IF n = 0 THEN {<< >>}
    ELSE LET shorter == SeqsUpTo(S, n - 1)
         IN shorter \cup {Append(q, x) : q \in {r \in shorter : Len(r) = n - 1}, x \in S}

ExtensionLists == SeqsUpTo(ExtensionNames, MaxExtensions)

\* std::find_if(begin(list), end(list), strcmp(name, element) == 0) != end(list)
FindIf(list, name) == \E k \in 1 .. Len(list) : list[k] = name

\* The list std::find_if is given at lines 110-111: the local copy of the
\* required extensions; physicalDeviceProperties is not read.
SearchedList(d) == d.requiredExtensions

\* Entry: the device's extensions (physicalDeviceProperties) and the required
\* ones (line 107), an empty result (line 106), the loop at its first element.
DetectInit ==
    \E required \in ExtensionLists, available \in ExtensionLists :
        detect = [dpc |-> "loop", requiredExtensions |-> required,
                  availableExtensions |-> available, i |-> 1,
                  missingExtensionNames |-> << >>]

\* One iteration of the loop (lines 108-120).
DetectLoop ==
    /\ UNCHANGED << frameVars, mipVars, mem, trans, chain, stage, tex, shot, swap, sync >>
    /\ detect.dpc = "loop"
    /\ detect.i <= Len(detect.requiredExtensions)
    /\ LET requiredExtension == detect.requiredExtensions[detect.i]
           extensionNotFound == ~FindIf(SearchedList(detect), requiredExtension)
       IN detect' = [detect EXCEPT
                       !.missingExtensionNames =
                           IF extensionNotFound
                           THEN Append(detect.missingExtensionNames, requiredExtension)
                           ELSE detect.missingExtensionNames,
                       !.i = detect.i + 1]

\* Line 122: the loop is over, the names collected are returned.
DetectReturn ==
    /\ UNCHANGED << frameVars, mipVars, mem, trans, chain, stage, tex, shot, swap, sync >>
    /\ detect.dpc = "loop"
    /\ detect.i > Len(detect.requiredExtensions)
    /\ detect' = [detect EXCEPT !.dpc = "done"]

DetectNext == DetectLoop \/ DetectReturn

\* ------------------------------------------------------------ specifications
\* Values of the variables of the part a specification does not run.
FrameAtRest ==
    /\ pc = "idle"
    /\ m_currentFrame = 0
    /\ m_inFlightFences = [f \in Slots |-> TRUE]
    /\ pending = [f \in Slots |-> 0]
    /\ framebufferResized = FALSE
    /\ reportsExtent = TRUE
    /\ m_swapChainExtent = [width |-> 1, height |-> 1]
    /\ rcWidth = 0
    /\ rcHeight = 0
    /\ rcReturn = "loop"
    /\ resizeEvent = FALSE
    /\ sameSurfaceBuilds = 1
    /\ call = NoCall

FrameIdle ==
    /\ FrameAtRest
    /\ winSize = [width |-> 1, height |-> 1]
    /\ contentScale = 1

MemIdle == mem = [apc |-> "idle"]

TransIdle == trans = [tpc |-> "idle"]

ChainIdle == chain = [cpc |-> "idle"]

StageIdle == stage = [spc |-> "idle"]

TexIdle == tex = [xpc |-> "idle"]

ShotIdle == shot = [vpc |-> "idle"]

SwapIdle == swap = [wpc |-> "idle"]

SyncIdle == sync = [ypc |-> "idle"]

DetectIdle == detect = [dpc |-> "idle"]

SetupIdle ==
    /\ MemIdle /\ TransIdle /\ ChainIdle /\ StageIdle /\ TexIdle /\ ShotIdle /\ SwapIdle
    /\ SyncIdle /\ DetectIdle

MipIdle ==
    /\ mpc = "idle"
    /\ texWidth = 1
    /\ texHeight = 1
    /\ mipLevels = 1
    /\ linearBlit = TRUE
    /\ mipI = 0
    /\ mipWidth = 0
    /\ mipHeight = 0
    /\ commands = << >>
    /\ cmdBuffer = "none"
    /\ imageLayout = [l \in 0 .. 0 |-> "SHADER_READ_ONLY_OPTIMAL"]

Init == FrameInit /\ MipIdle /\ SetupIdle

Next == FrameNext

Spec == Init /\ [][Next]_vars

\* The GPU finishes every submission it was given, and a vkWaitForFences whose
\* fence is signaled returns.
LiveSpec ==
    /\ Spec
    /\ WF_vars(\E f \in Slots : GpuComplete(f))
    /\ WF_vars(WaitForFences)

MipSpecInit == MipInit /\ FrameIdle /\ SetupIdle

MipSpec == MipSpecInit /\ [][MipNext]_vars

MemSpecInit ==
    MemInit /\ FrameIdle /\ MipIdle /\ TransIdle /\ ChainIdle /\ StageIdle /\ TexIdle
    /\ ShotIdle /\ SwapIdle /\ SyncIdle /\ DetectIdle

MemSpec == MemSpecInit /\ [][MemNext]_vars

TransSpecInit ==
    TransInit /\ FrameIdle /\ MipIdle /\ MemIdle /\ ChainIdle /\ StageIdle /\ TexIdle
    /\ ShotIdle /\ SwapIdle /\ SyncIdle /\ DetectIdle

TransSpec == TransSpecInit /\ [][TransNext]_vars

\* createSwapChain for every window size, content scale and surface.
ChainSpecInit ==
    /\ FrameAtRest
    /\ winSize \in WinSizes
    /\ contentScale \in ContentScales
    /\ ChainInit
    /\ MipIdle /\ MemIdle /\ TransIdle /\ StageIdle /\ TexIdle /\ ShotIdle /\ SwapIdle /\ SyncIdle
    /\ DetectIdle

ChainSpec == ChainSpecInit /\ [][ChainNext]_vars

StageSpecInit ==
    StageInit /\ FrameIdle /\ MipIdle /\ MemIdle /\ TransIdle /\ ChainIdle /\ TexIdle
    /\ ShotIdle /\ SwapIdle /\ SyncIdle /\ DetectIdle

StageSpec == StageSpecInit /\ [][StageNext]_vars

\* createTextureImage from the created image on, for every image size.
TexSpecInit ==
    TexInit /\ FrameIdle /\ MipIdle /\ MemIdle /\ TransIdle /\ ChainIdle /\ StageIdle
    /\ ShotIdle /\ SwapIdle /\ SyncIdle /\ DetectIdle

TexSpec == TexSpecInit /\ [][TexNext]_vars

\* createVertexBuffer and createIndexBuffer for every buffer size.
ShotSpecInit ==
    ShotInit /\ FrameIdle /\ MipIdle /\ MemIdle /\ TransIdle /\ ChainIdle /\ StageIdle
    /\ TexIdle /\ SwapIdle /\ SyncIdle /\ DetectIdle

ShotSpec == ShotSpecInit /\ [][ShotNext]_vars

\* recreateSwapChain entered with any of the frame slots' submissions still
\* executing.
SwapSpecInit ==
    /\ pc = "idle"
    /\ m_currentFrame \in Slots
    /\ pending \in [Slots -> 0 .. 1]
    /\ m_inFlightFences = [f \in Slots |-> pending[f] = 0]
    /\ framebufferResized = FALSE
    /\ reportsExtent = TRUE
    /\ m_swapChainExtent = [width |-> 1, height |-> 1]
    /\ rcWidth = 1
    /\ rcHeight = 1
    /\ rcReturn = "loop"
    /\ resizeEvent = FALSE
    /\ sameSurfaceBuilds = 1
    /\ call = NoCall
    /\ winSize = [width |-> 1, height |-> 1]
    /\ contentScale = 1
    /\ SwapInit
    /\ MipIdle /\ MemIdle /\ TransIdle /\ ChainIdle /\ StageIdle /\ TexIdle /\ ShotIdle /\ SyncIdle
    /\ DetectIdle

SwapSpec == SwapSpecInit /\ [][SwapNext]_vars

\* The frame loop's semaphores for every number of swapchain images.
SyncSpecInit ==
    /\ SyncInit /\ FrameIdle /\ MipIdle /\ MemIdle /\ TransIdle /\ ChainIdle /\ StageIdle
    /\ TexIdle /\ ShotIdle /\ SwapIdle /\ DetectIdle

SyncSpec == SyncSpecInit /\ [][SyncNext]_vars

\* detectMissingRequiredDeviceExtensions for every pair of lists.
DetectSpecInit ==
    /\ DetectInit /\ FrameIdle /\ MipIdle /\ MemIdle /\ TransIdle /\ ChainIdle /\ StageIdle
    /\ TexIdle /\ ShotIdle /\ SwapIdle /\ SyncIdle

DetectSpec == DetectSpecInit /\ [][DetectNext]_vars

\* ===================================================================== claims
RECURSIVE SumPending(_)
SumPending(S) ==
    IF S = {} THEN 0
    ELSE LET f == CHOOSE g \in S : TRUE IN pending[f] + SumPending(S \ {f})

\* C1: at every instant at most MAX_FRAMES_IN_FLIGHT frame submissions are
\* un-retired (at most one per slot, so at most N fences are unsignaled with
\* GPU work outstanding), and draw() reaches vkQueueSubmit for slot f only
\* when no earlier submission of slot f is unfinished.
C1_AtMostNFramesInFlight ==
    /\ SumPending(Slots) <= MAX_FRAMES_IN_FLIGHT
    /\ \A f \in Slots : pending[f] <= 1
    /\ Cardinality({f \in Slots : ~m_inFlightFences[f] /\ pending[f] > 0}) <= MAX_FRAMES_IN_FLIGHT
    /\ pc = "submit" => pending[m_currentFrame] = 0

\* Every slot has a submission in flight at once.
C1_Witness == \A f \in Slots : pending[f] = 1 /\ ~m_inFlightFences[f]

\* C4: when acquisition reports out-of-date, the call resets no fence, records,
\* submits and presents nothing, leaves slot f's fence signaled and the frame
\* index unchanged, and has recreated the swapchain when it returns.
C4_OutOfDateAbortsFrame ==
    call.acquire = "VK_ERROR_OUT_OF_DATE_KHR" =>
        /\ ~call.fenceReset
        /\ ~call.uboWritten
        /\ ~call.recorded
        /\ ~call.submitted
        /\ ~call.presented
        /\ m_currentFrame = call.frame0
        /\ m_inFlightFences[call.frame0]
        /\ pc \in {"rcGetSize", "rcPoll", "rcWaitEvents", "rcWaitIdle", "rcBuild",
                   "loop", "exitIdle", "cleanup", "fatal", "done"}
        /\ pc \in {"loop", "exitIdle", "cleanup"} => call.recreated

\* draw() has returned from a frame abandoned at acquisition.
C4_Witness ==
    /\ pc = "loop"
    /\ call.acquire = "VK_ERROR_OUT_OF_DATE_KHR"
    /\ call.recreated
    /\ call.frame0 = 1

\* C5: whenever draw() is at the fence wait for slot f, the fence is signaled
\* or a submission that will signal it is outstanding; with a GPU that
\* finishes its work, every fence wait is eventually passed.
C5_FenceWaitTerminates ==
    /\ [](pc = "waitFence" =>
            (m_inFlightFences[m_currentFrame] \/ pending[m_currentFrame] > 0))
    /\ ((pc = "waitFence") ~> (pc = "acquire"))

\* draw() blocks at the fence wait on a slot whose submission is unfinished.
C5_Witness ==
    /\ pc = "waitFence"
    /\ ~m_inFlightFences[m_currentFrame]
    /\ pending[m_currentFrame] > 0

\* C6: while draw() writes slot f's uniform buffer, resets its fence and
\* resets and re-records its command buffer, no submission of slot f is
\* outstanding, and the fence wait of this call has returned.
C6_NoCpuWriteWhileGpuUsesSlot ==
    pc \in {"updateUniform", "resetFence", "record", "submit"} =>
        /\ pending[m_currentFrame] = 0
        /\ call.waited

\* draw() re-records slot f while the other slot is still in flight.
C6_Witness ==
    /\ pc = "record"
    /\ call.uboWritten
    /\ \E g \in Slots : g # m_currentFrame /\ pending[g] > 0

PresentAsksRecreate == call.presentAsked

\* C7 as claimed: after a draw() that reached presentation, the swapchain was
\* recreated and the flag is false iff present asked for it or the flag was set.
C7_Original ==
    (pc = "loop" /\ call.presented) =>
        IF PresentAsksRecreate
        THEN call.recreated /\ ~framebufferResized
        ELSE ~call.recreated

\* C7 (amended): after a draw() that reached presentation, if present reported
\* out-of-date or suboptimal or the flag was set, the flag was cleared before
\* the recreation and the swapchain was recreated in that call; the flag is
\* set at return exactly when a size-changed signal was delivered during that
\* recreation's wait for a non-zero framebuffer.  Otherwise nothing is
\* recreated and the flag is untouched.
C7_RecreateAfterPresent ==
    (pc = "loop" /\ call.presented) =>
        IF PresentAsksRecreate
        THEN /\ call.recreated
             /\ call.flagCleared
             /\ framebufferResized = call.signalInRecreate
        ELSE /\ ~call.recreated
             /\ ~call.flagCleared
             /\ ~framebufferResized

\* A signal delivered during the recreation after present leaves the flag set.
C7_Witness ==
    /\ pc = "loop"
    /\ call.presented
    /\ call.recreated
    /\ call.signalInRecreate
    /\ framebufferResized

\* C8 as claimed: a frame whose acquisition reported suboptimal is recorded,
\* submitted, presented, and followed by a recreation.
C8_Original ==
    (pc = "loop" /\ call.acquire = "VK_SUBOPTIMAL_KHR") =>
        /\ call.recorded
        /\ call.submitted
        /\ call.presented
        /\ call.recreated

\* C8 (amended): a draw() that returns after a suboptimal acquisition has
\* recorded, submitted and presented the frame and advanced the frame index;
\* the swapchain is recreated after the presentation exactly when present
\* reports out-of-date or suboptimal or the resize flag is set.
C8_SuboptimalProceeds ==
    (pc = "loop" /\ call.acquire = "VK_SUBOPTIMAL_KHR") =>
        /\ call.fenceReset
        /\ call.recorded
        /\ call.submitted
        /\ call.presented
        /\ m_currentFrame = (call.frame0 + 1) % MAX_FRAMES_IN_FLIGHT
        /\ call.recreated <=> PresentAsksRecreate

\* A suboptimal acquisition followed by a successful present: no recreation.
C8_Witness ==
    /\ pc = "loop"
    /\ call.acquire = "VK_SUBOPTIMAL_KHR"
    /\ call.presented
    /\ ~call.presentAsked
    /\ ~call.recreated

\* C9 as claimed: recreateSwapChain never goes on to create a swapchain with a
\* zero width or height.
C9_NeverZeroExtent ==
    /\ m_swapChainExtent.width > 0
    /\ m_swapChainExtent.height > 0
    /\ ~call.zeroExtentCreate

\* The surface's current extent, or, when it leaves the extent to the caller,
\* the requested window size clamped into [minImageExtent, maxImageExtent].
ClampedSurfaceExtent ==
    IF reportsExtent
    THEN FramebufferSize
    ELSE [width  |-> Max(CapMin, Min(CapMin + CapSpan, winSize.width)),
          height |-> Max(CapMin, Min(CapMin + CapSpan, winSize.height))]

C2_AllLevelsShaderReadOnly ==
    mpc = "done" =>
        \A l \in 0 .. (mipLevels - 1) : imageLayout[l] = "SHADER_READ_ONLY_OPTIMAL"

\* A chain of at least three levels has been generated.
C2_Witness ==
    /\ mpc = "done"
    /\ mipLevels >= 3
    /\ Len(commands) = 3 * (mipLevels - 1) + 1

Blits == {k \in 1 .. Len(commands) : commands[k].kind = "blit"}

\* C3: the destination extent of the blit into level i is
\* max(1, floor(w/2^i)) x max(1, floor(h/2^i)), never below 1, and a completed
\* call has issued one blit into every level 1..mipLevels-1.
C3_BlitDstExtent ==
    /\ \A k \in Blits :
         /\ commands[k].dstLevel \in 1 .. (mipLevels - 1)
         /\ commands[k].dstWidth = Max(1, texWidth \div (2 ^ commands[k].dstLevel))
         /\ commands[k].dstHeight = Max(1, texHeight \div (2 ^ commands[k].dstLevel))
         /\ commands[k].dstWidth >= 1
         /\ commands[k].dstHeight >= 1
    /\ mpc = "done" =>
         \A i \in 1 .. (mipLevels - 1) :
            Cardinality({k \in Blits : commands[k].dstLevel = i}) = 1

\* A non-square image: the width has reached 1 while the height has not.
C3_Witness ==
    \E k \in Blits :
        /\ commands[k].srcWidth = 1
        /\ commands[k].dstWidth = 1
        /\ commands[k].srcHeight > 1

\* C15: when the texture format does not support linear filtering of sampled
\* images, generateMipmaps fails before a command buffer is allocated: it stops
\* at the error with no command buffer, no barrier or blit recorded, and every
\* mip level in the layout it had on entry.
C15_NoLinearBlitFailsEarly ==
    /\ ~linearBlit => mpc \in {"idle", "start", "error"}
    /\ mpc = "error" =>
         /\ ~linearBlit
         /\ cmdBuffer = "none"
         /\ commands = << >>
         /\ \A l \in DOMAIN imageLayout : imageLayout[l] = "TRANSFER_DST_OPTIMAL"

\* generateMipmaps has failed on a format without linear filtering, for a chain
\* of several levels.
C15_Witness ==
    /\ mpc = "error"
    /\ ~linearBlit
    /\ mipLevels >= 2

\* C16: with mipLevels = 1 a completed generateMipmaps has recorded no blit and
\* exactly one barrier, which moves level 0 from transfer-destination to
\* shader-read-only.
C16_SingleLevel ==
    (mipLevels = 1 /\ mpc = "done") =>
        /\ Blits = {}
        /\ commands = << Barrier(0, "TRANSFER_DST_OPTIMAL", "SHADER_READ_ONLY_OPTIMAL",
                                 "TRANSFER_WRITE", "SHADER_READ", "TRANSFER",
                                 "FRAGMENT_SHADER") >>
        /\ imageLayout[0] = "SHADER_READ_ONLY_OPTIMAL"

\* A single-level generateMipmaps has completed on an image larger than 1x1.
C16_Witness ==
    /\ mipLevels = 1
    /\ mpc = "done"
    /\ texWidth > 1
    /\ Len(commands) = 1

\* C17: a failing result of acquire or present other than the presentation
\* staleness that is recovered locally (out-of-date at acquire; out-of-date or
\* suboptimal at present) is fatal: when draw() has seen one, the frame loop has
\* been left for the fatal-error exit.  (A failing submission goes to
\* pc = "fatal" in the same step, see QueueSubmit.)
C17_OtherFailuresAreFatal ==
    /\ call.acquire \notin {"none", "VK_SUCCESS", "VK_SUBOPTIMAL_KHR",
                            "VK_ERROR_OUT_OF_DATE_KHR"} => pc \in {"fatal", "done"}
    /\ call.presentFailed => pc \in {"fatal", "done"}

\* The swapchain has been recreated by a draw() call that cleared the resize
\* flag first; draw() is about to return.
ResizeAnswered ==
    /\ pc = "advance"
    /\ call.flagCleared
    /\ call.recreated

\* C11 as claimed: while the frame loop keeps running (draw() is entered again
\* and again), a set resize flag is always followed by a recreation that was
\* preceded by clearing the flag, whatever acquire and present report.
C11_Original ==
    ([]<><<PollEvents>>_vars) => (framebufferResized ~> ResizeAnswered)

\* C11: while frames keep reaching presentation, a set resize flag is always
\* followed by a draw() call that clears the flag and then recreates the
\* swapchain.
C11_ResizeAnsweredAtPresent ==
    ([]<><<QueuePresent>>_vars) => (framebufferResized ~> ResizeAnswered)

\* draw() has reached presentation with the flag set, cleared it and recreated
\* the swapchain, although acquire and present both reported success.
C11_Witness ==
    /\ ResizeAnswered
    /\ call.acquire = "VK_SUCCESS"
    /\ m_swapChainExtent.width = 2
    /\ ~framebufferResized

\* The bits set in the word x.
BitsOf(x) == {b \in 0 .. 7 : BitSet(x, b)}

\* The memory types the caller can use: allowed by the filter and carrying
\* every requested property flag.
SuitableTypes ==
    {i \in 0 .. (Len(mem.memoryTypes) - 1) :
        /\ i \in BitsOf(mem.typeFilter)
        /\ BitsOf(mem.properties) \subseteq BitsOf(mem.memoryTypes[i + 1])}

\* C12: findMemoryType returns the least index whose filter bit is set and
\* whose property flags include every requested flag; it returns an index
\* exactly when such a type exists, and the index depends on the three inputs
\* only.
C12_LeastSuitableIndex ==
    /\ mem.memTypeIndex # NoIndex =>
         /\ mem.memTypeIndex \in SuitableTypes
         /\ \A j \in SuitableTypes : mem.memTypeIndex <= j
    /\ mem.apc \in {"allocate", "bind", "returned", "throwAllocate"} =>
         mem.memTypeIndex # NoIndex
    /\ mem.apc = "throwNoType" => SuitableTypes = {}
    /\ mem.apc = "findType" => \A j \in SuitableTypes : mem.memI <= j

\* findMemoryType has skipped a type the filter allows but whose flags lack a
\* requested one, and a type with the flags that the filter excludes, and has
\* returned index 2.
C12_Witness ==
    /\ mem.memTypeIndex = 2
    /\ BitSet(mem.typeFilter, 0)
    /\ ~BitSet(mem.typeFilter, 1)
    /\ BitAnd(mem.memoryTypes[1], mem.properties) # 0
    /\ BitAnd(mem.memoryTypes[2], mem.properties) = mem.properties
    /\ mem.properties = 3

\* C13: when no memory type is suitable, createBuffer and createImage end in
\* the error of findMemoryType: no device memory has been allocated or bound
\* and nothing is returned to the caller.
C13_NoSuitableTypeFails ==
    /\ SuitableTypes = {} =>
         /\ mem.apc \in {"create", "findType", "throwCreate", "throwNoType"}
         /\ ~mem.resource.allocated
         /\ ~mem.resource.bound
         /\ ~mem.resource.returned
    /\ mem.apc = "throwNoType" =>
         /\ SuitableTypes = {}
         /\ ~mem.resource.allocated
         /\ ~mem.resource.bound
         /\ ~mem.resource.returned

\* createImage has created the image and then failed to find a memory type
\* among three, every one of which the filter allows.
C13_Witness ==
    /\ mem.apc = "throwNoType"
    /\ mem.resKind = "image"
    /\ mem.resource.created
    /\ Len(mem.memoryTypes) = 3
    /\ mem.typeFilter = 7

\* The transitions the table lists.
SupportedTransitions ==
    {<< "UNDEFINED", "TRANSFER_DST_OPTIMAL" >>,
     << "TRANSFER_DST_OPTIMAL", "SHADER_READ_ONLY_OPTIMAL" >>}

\* C14: transitionImageLayout completes for exactly the two listed layout
\* pairs, and then has recorded and submitted exactly one barrier, over levels
\* 0 .. mipLevels-1, with the access masks and stages of the table; for every
\* other pair it fails, with no barrier recorded and nothing submitted.
C14_TransitionTable ==
    /\ << trans.oldLayout, trans.newLayout >> \in SupportedTransitions =>
         trans.tpc # "throw"
    /\ << trans.oldLayout, trans.newLayout >> \notin SupportedTransitions =>
         /\ trans.tpc \in {"begin", "access", "throw"}
         /\ trans.commands = << >>
         /\ ~trans.submitted
    /\ trans.tpc = "done" =>
         /\ trans.submitted
         /\ Len(trans.commands) = 1
         /\ trans.commands[1].kind = "barrier"
         /\ trans.commands[1].baseMipLevel = 0
         /\ trans.commands[1].levelCount = trans.mipLevels
         /\ trans.commands[1].oldLayout = trans.oldLayout
         /\ trans.commands[1].newLayout = trans.newLayout
         /\ trans.oldLayout = "UNDEFINED" =>
               /\ trans.commands[1].srcAccessMask = "0"
               /\ trans.commands[1].dstAccessMask = "TRANSFER_WRITE"
               /\ trans.commands[1].srcStage = "TOP_OF_PIPE"
               /\ trans.commands[1].dstStage = "TRANSFER"
         /\ trans.oldLayout = "TRANSFER_DST_OPTIMAL" =>
               /\ trans.commands[1].srcAccessMask = "TRANSFER_WRITE"
               /\ trans.commands[1].dstAccessMask = "SHADER_READ"
               /\ trans.commands[1].srcStage = "TRANSFER"
               /\ trans.commands[1].dstStage = "FRAGMENT_SHADER"

\* The transfer-destination to shader-read-only transition of a chain of
\* several levels has completed.
C14_Witness ==
    /\ trans.tpc = "done"
    /\ trans.oldLayout = "TRANSFER_DST_OPTIMAL"
    /\ trans.newLayout = "SHADER_READ_ONLY_OPTIMAL"
    /\ trans.mipLevels >= 2
    /\ trans.cmdBuffer = "freed"

\* C18: the number of swapchain images requested is min(minImageCount + 1,
\* maxImageCount) when maxImageCount > 0, and minImageCount + 1 when
\* maxImageCount is 0.
C18_ImageCount ==
    chain.cpc \in {"create", "created", "throw"} =>
        chain.imageCount =
            IF chain.capabilities.maxImageCount > 0
            THEN Min(chain.capabilities.minImageCount + 1, chain.capabilities.maxImageCount)
            ELSE chain.capabilities.minImageCount + 1

\* A swapchain has been created on a surface whose maxImageCount equals its
\* minImageCount, so that the cap applies.
C18_Witness ==
    /\ chain.cpc = "created"
    /\ chain.capabilities.maxImageCount = chain.capabilities.minImageCount
    /\ chain.imageCount = chain.capabilities.maxImageCount
    /\ chain.imageCount >= 2

\* C19: selectSwapExtent returns the surface's current extent verbatim unless
\* its width is the sentinel; with the sentinel it returns the framebuffer
\* size clamped component-wise into [minImageExtent, maxImageExtent], and in
\* both cases the result lies within the surface's bounds.
C19_ExtentFromFramebuffer ==
    chain.cpc \in {"imageCount", "create", "created", "throw"} =>
        LET caps == chain.capabilities
        IN /\ chain.extent.width >= caps.minImageExtent.width
           /\ chain.extent.width <= caps.maxImageExtent.width
           /\ chain.extent.height >= caps.minImageExtent.height
           /\ chain.extent.height <= caps.maxImageExtent.height
           /\ IF caps.currentExtent.width # UINT32_MAX
              THEN chain.extent = caps.currentExtent
              ELSE /\ chain.extent.width =
                         Max(caps.minImageExtent.width,
                             Min(caps.maxImageExtent.width, FramebufferSize.width))
                   /\ chain.extent.height =
                         Max(caps.minImageExtent.height,
                             Min(caps.maxImageExtent.height, FramebufferSize.height))

\* C20: for every channel count of the file, createTextureImage stages exactly
\* width * height * 4 bytes, and the host copy reads no byte beyond the decoded
\* pixel array.
C20_StagesFourBytesPerPixel ==
    /\ stage.spc \in {"staging", "copy", "copied"} =>
         stage.imageSize = stage.m_width * stage.m_height * 4
    /\ stage.spc \in {"copy", "copied"} =>
         stage.stagingBytes = stage.m_width * stage.m_height * 4
    /\ stage.spc = "copied" => stage.bytesRead <= stage.pixelBytes

\* The layout every level is in when generateMipmaps is entered.
EntryLayout == [l \in 0 .. (mipLevels - 1) |-> "TRANSFER_DST_OPTIMAL"]

\* The layouts after the first k recorded commands have executed.
LayoutAfter(k) == ExecuteCommands(SubSeq(commands, 1, k), EntryLayout)

\* C21: the commands recorded for i = 1 .. mipLevels-1 are, in increasing order
\* of i, the barrier of level i-1 from transfer-destination to transfer-source,
\* the linear blit from level i-1 to level i, and the barrier of level i-1 to
\* shader-read-only, and nothing else but the final barrier; when a blit is
\* recorded its source level is in transfer-source layout and its destination
\* level in transfer-destination layout.
C21_MipCommandSequence ==
    /\ Len(commands) <= 3 * (mipLevels - 1) + 1
    /\ mpc = "done" => Len(commands) = 3 * (mipLevels - 1) + 1
    /\ \A k \in 1 .. Len(commands) :
         LET i == ((k - 1) \div 3) + 1
             c == commands[k]
         IN IF k = 3 * (mipLevels - 1) + 1
            THEN c.kind = "barrier" /\ c.baseMipLevel = mipLevels - 1
            ELSE CASE (k - 1) % 3 = 0 ->
                        /\ c.kind = "barrier"
                        /\ c.baseMipLevel = i - 1
                        /\ c.levelCount = 1
                        /\ c.oldLayout = "TRANSFER_DST_OPTIMAL"
                        /\ c.newLayout = "TRANSFER_SRC_OPTIMAL"
                   [] (k - 1) % 3 = 1 ->
                        /\ c.kind = "blit"
                        /\ c.srcLevel = i - 1
                        /\ c.dstLevel = i
                        /\ c.filter = "LINEAR"
                        /\ LayoutAfter(k - 1)[i - 1] = "TRANSFER_SRC_OPTIMAL"
                        /\ LayoutAfter(k - 1)[i] = "TRANSFER_DST_OPTIMAL"
                   [] OTHER ->
                        /\ c.kind = "barrier"
                        /\ c.baseMipLevel = i - 1
                        /\ c.levelCount = 1
                        /\ c.oldLayout = "TRANSFER_SRC_OPTIMAL"
                        /\ c.newLayout = "SHADER_READ_ONLY_OPTIMAL"

\* The blit into the last level of a chain of four levels has been recorded.
C21_Witness ==
    /\ mipLevels = 4
    /\ Len(commands) >= 8
    /\ commands[8].kind = "blit"
    /\ commands[8].dstLevel = 3

\* C22 as claimed: for a texture with its full mip chain, the source region of
\* the blit from level i-1 has extent floor(w/2^(i-1)) x floor(h/2^(i-1)).
C22_Original ==
    mipLevels = MipLevelsFor(texWidth, texHeight) =>
        \A k \in Blits :
            /\ commands[k].srcWidth = texWidth \div (2 ^ commands[k].srcLevel)
            /\ commands[k].srcHeight = texHeight \div (2 ^ commands[k].srcLevel)

\* C22: the source region of the blit from level i-1 has extent
\* max(1, floor(w/2^(i-1))) x max(1, floor(h/2^(i-1))).
C22_BlitSrcExtent ==
    \A k \in Blits :
        /\ commands[k].srcWidth = Max(1, texWidth \div (2 ^ commands[k].srcLevel))
        /\ commands[k].srcHeight = Max(1, texHeight \div (2 ^ commands[k].srcLevel))

\* A blit of a full chain reads a level whose width has been held at 1 where
\* floor(w/2^(i-1)) is 0.
C22_Witness ==
    /\ mipLevels = MipLevelsFor(texWidth, texHeight)
    /\ \E k \in Blits :
         /\ texWidth \div (2 ^ commands[k].srcLevel) = 0
         /\ commands[k].srcWidth = 1
         /\ commands[k].srcHeight >= 2

\* Every command of createTextureImage's submissions so far, in order.
TexCommands ==
    tex.history
      \o (IF tex.xpc = "inTransition" THEN trans.commands ELSE << >>)
      \o (IF tex.xpc = "inMipmaps" THEN commands ELSE << >>)

\* The (source, destination) layout pairs the barriers of generateMipmaps use.
MipmapTransitions ==
    {<< "TRANSFER_DST_OPTIMAL", "TRANSFER_SRC_OPTIMAL" >>,
     << "TRANSFER_SRC_OPTIMAL", "SHADER_READ_ONLY_OPTIMAL" >>,
     << "TRANSFER_DST_OPTIMAL", "SHADER_READ_ONLY_OPTIMAL" >>}

\* C23 as claimed: every layout transition applied to the image, by
\* transitionImageLayout or by a barrier of generateMipmaps, is a pair of the
\* supported-pair table.
C23_Original ==
    \A k \in 1 .. Len(TexCommands) :
        TexCommands[k].kind = "barrier" =>
            << TexCommands[k].oldLayout, TexCommands[k].newLayout >> \in SupportedTransitions

\* C23: every transition applied by transitionImageLayout is a pair of the
\* supported-pair table; the barriers generateMipmaps records itself use the
\* pairs transfer-destination -> transfer-source, transfer-source ->
\* shader-read-only and transfer-destination -> shader-read-only.
C23_TransitionPairs ==
    /\ tex.xpc = "inTransition" =>
         \A k \in 1 .. Len(trans.commands) :
            << trans.commands[k].oldLayout, trans.commands[k].newLayout >>
                \in SupportedTransitions
    /\ \A k \in 1 .. Len(TexCommands) :
         TexCommands[k].kind = "barrier" =>
            << TexCommands[k].oldLayout, TexCommands[k].newLayout >>
                \in SupportedTransitions \cup MipmapTransitions
    /\ \A k \in 1 .. Len(commands) :
         commands[k].kind = "barrier" =>
            << commands[k].oldLayout, commands[k].newLayout >> \in MipmapTransitions

\* createTextureImage has finished for an image of at least three levels: the
\* transition and all three kinds of mipmap barrier have executed.
C23_Witness ==
    /\ tex.xpc = "done"
    /\ tex.mipLevels >= 3
    /\ \E k \in 1 .. Len(tex.history) :
         /\ tex.history[k].kind = "barrier"
         /\ tex.history[k].oldLayout = "UNDEFINED"
    /\ \E k \in 1 .. Len(tex.history) :
         /\ tex.history[k].kind = "barrier"
         /\ tex.history[k].newLayout = "TRANSFER_SRC_OPTIMAL"

\* Whether every command of cmds, executed in order from the layouts in layout,
\* declares the layouts its levels are in.
RECURSIVE DeclaredLayoutsHold(_, _)
DeclaredLayoutsHold(cmds, layout) ==
    IF cmds = << >>
    THEN TRUE
    ELSE LET c == Head(cmds)
             ok == CASE c.kind = "barrier" ->
                          \A l \in DOMAIN layout :
                              (l >= c.baseMipLevel /\ l < c.baseMipLevel + c.levelCount)
                                  => layout[l] = c.oldLayout
                     [] c.kind = "copy" -> layout[c.dstLevel] = c.dstLayout
                     [] OTHER -> /\ layout[c.srcLevel] = c.srcLayout
                                 /\ layout[c.dstLevel] = c.dstLayout
         IN ok /\ DeclaredLayoutsHold(Tail(cmds), ExecuteCommands(<< c >>, layout))

\* C24: throughout createTextureImage the old layout every barrier declares is
\* the layout the preceding commands left each covered level in, every copy and
\* blit names the layouts its levels are in, and the layout carried from one
\* step to the next is the one the recorded barriers produce.
C24_DeclaredLayoutsAreActual ==
    tex.xpc \notin {"idle"} =>
        /\ DeclaredLayoutsHold(TexCommands, CreatedLayout(tex.mipLevels))
        /\ tex.layout = ExecuteCommands(tex.history, CreatedLayout(tex.mipLevels))
        /\ tex.xpc = "inMipmaps" /\ mpc \notin {"done"} => imageLayout = tex.layout
        /\ tex.xpc = "done" =>
             \A l \in DOMAIN tex.layout : tex.layout[l] = "SHADER_READ_ONLY_OPTIMAL"

\* The last blit of a chain of at least three levels has been recorded on the
\* image that was transitioned and copied into.
C24_Witness ==
    /\ tex.xpc = "inMipmaps"
    /\ tex.mipLevels >= 3
    /\ Len(tex.history) = 2
    /\ \E k \in Blits : commands[k].dstLevel = tex.mipLevels - 1

\* The order in which a single-use copy and its staging buffer go through
\* their life.
OneShotOrder == << "allocate", "record", "submit", "wait", "free", "destroyStaging" >>

\* C25: a single-use command buffer is allocated, recorded, submitted, waited
\* for and freed in that order, the staging buffer is destroyed after that, and
\* neither is released while the submission that uses it has not completed.
C25_ReleasedAfterCompletion ==
    shot.vpc /= "idle" =>
        /\ Len(shot.log) <= Len(OneShotOrder)
        /\ shot.log = SubSeq(OneShotOrder, 1, Len(shot.log))
        /\ ~shot.fault
        /\ shot.cmdBuffer = "freed" =>
             shot.submission = "complete" /\ shot.copied = shot.bufferSize
        /\ shot.staging = "destroyed" =>
             /\ shot.submission = "complete"
             /\ shot.copied = shot.bufferSize
             /\ shot.cmdBuffer = "freed"

\* The staging buffer of a copy of more than one unit has been destroyed.
C25_Witness ==
    /\ shot.vpc = "done"
    /\ shot.staging = "destroyed"
    /\ shot.cmdBuffer = "freed"
    /\ shot.bufferSize >= 2

\* The calls of recreateSwapChain in the order the code makes them.
RecreateOrder ==
    << "waitIdle", "depthView", "depthImage", "depthMemory", "framebuffers", "imageViews",
       "swapchain", "createSwapChain", "createImageViews", "createDepthResources",
       "createFramebuffers" >>

\* C26: recreateSwapChain waits for device idle, destroys the depth resources,
\* the framebuffers, the image views and the swapchain in that order and then
\* creates the swapchain, the views, the depth resources and the framebuffers;
\* no swapchain-dependent object is destroyed while a frame slot has GPU work
\* outstanding.
C26_RecreateOrder ==
    swap.wpc /= "idle" =>
        /\ Len(swap.log) <= Len(RecreateOrder)
        /\ swap.log = SubSeq(RecreateOrder, 1, Len(swap.log))
        /\ (\E o \in SwapObjects : swap[o] = Destroyed) => \A f \in Slots : pending[f] = 0
        /\ swap.wpc \in {"done", "frame"} => swap.log = RecreateOrder

\* A recreation entered with GPU work outstanding on both slots has finished.
C26_Witness ==
    /\ swap.wpc = "done"
    /\ swap.busyAtEntry = Slots
    /\ swap.log = RecreateOrder
    /\ swap.swapChain.gen = 2

\* C27: when a frame acquires an image and records its command buffer, the
\* swapchain, its image views, the depth resources and the framebuffers all
\* come from the most recent creation, there are as many framebuffers and views
\* as swapchain images, and the acquired index names an existing framebuffer.
C27_SwapchainStateWhole ==
    swap.wpc \in {"waitIdle", "done", "frame"} =>
        /\ \A o \in SwapObjects : swap[o].gen = swap.gen
        /\ swap.imageViews.count = swap.swapChain.count
        /\ swap.framebuffers.count = swap.swapChain.count
        /\ swap.used /= << >> => swap.used[1] < swap.framebuffers.count

\* A frame uses the last image of a recreated swapchain that has more images
\* than the one it replaced.
C27_Witness ==
    /\ swap.wpc = "frame"
    /\ swap.gen = 2
    /\ swap.swapChain.count = MaxSwapImages
    /\ swap.used = << MaxSwapImages - 1 >>

\* Whether the draw() call in progress or just ended has done none of the
\* steps that follow acquisition.
NothingAfterAcquire ==
    /\ ~call.fenceReset
    /\ ~call.recorded
    /\ ~call.submitted
    /\ ~call.presented

\* C28 as claimed: a draw() call that has ended has either done the full
\* sequence acquire, fence reset, record, submit, present, or was abandoned at
\* acquisition with no fence reset, no submission and no present.
C28_Original ==
    (pc \in {"loop", "fatal"} /\ call.entered) =>
        \/ /\ call.acquire \in {"VK_SUCCESS", "VK_SUBOPTIMAL_KHR"}
           /\ call.fenceReset /\ call.recorded /\ call.submitted /\ call.presented
        \/ /\ call.acquire \notin {"VK_SUCCESS", "VK_SUBOPTIMAL_KHR"}
           /\ NothingAfterAcquire

\* C28: the steps of draw() happen in the order acquire, fence reset, record,
\* submit, present; a draw() call that returns has either done all of them or
\* was abandoned at an out-of-date acquisition with the slot's fence left as it
\* was, nothing submitted and nothing presented; only a call that ends in a
\* fatal error stops in between, after the fence reset when the submission is
\* refused or after the submission when present fails.
C28_FullOrAbandoned ==
    call.entered =>
        /\ call.presented => call.submitted
        /\ call.submitted => call.recorded
        /\ call.recorded => call.fenceReset
        /\ call.fenceReset => call.acquire \in {"VK_SUCCESS", "VK_SUBOPTIMAL_KHR"}
        /\ pc = "loop" =>
             \/ /\ call.acquire \in {"VK_SUCCESS", "VK_SUBOPTIMAL_KHR"}
                /\ call.fenceReset /\ call.recorded /\ call.submitted /\ call.presented
             \/ /\ call.acquire = "VK_ERROR_OUT_OF_DATE_KHR"
                /\ NothingAfterAcquire
                /\ m_inFlightFences[call.frame0]
                /\ m_currentFrame = call.frame0
        /\ (pc = "fatal" /\ call.acquire \notin {"VK_SUCCESS", "VK_SUBOPTIMAL_KHR"})
             => NothingAfterAcquire

\* A draw() call abandoned at acquisition has returned after the swapchain was
\* recreated.
C28_Witness ==
    /\ pc = "loop"
    /\ call.entered
    /\ call.acquire = "VK_ERROR_OUT_OF_DATE_KHR"
    /\ call.recreated
    /\ NothingAfterAcquire

\* C30: the frame index stays in 0 .. N-1 and changes only at the end of a
\* draw() call that submitted a frame, to (f + 1) mod N, once per call, also
\* when the swapchain was recreated after presentation; a call that returns
\* without having submitted leaves it unchanged.
C30_RoundRobin ==
    [][/\ m_currentFrame \in Slots
       /\ m_currentFrame' \in Slots
       /\ m_currentFrame' /= m_currentFrame =>
            /\ pc = "advance"
            /\ pc' = "loop"
            /\ call.submitted
            /\ call.frame0 = m_currentFrame
            /\ m_currentFrame' = (m_currentFrame + 1) % MAX_FRAMES_IN_FLIGHT
       /\ (pc /= "loop" /\ pc' = "loop") =>
            m_currentFrame' = IF call.submitted
                              THEN (call.frame0 + 1) % MAX_FRAMES_IN_FLIGHT
                              ELSE call.frame0]_vars

\* A draw() call of slot 1 that recreated the swapchain after presentation
\* has returned with the index back at 0.
C30_Witness ==
    /\ pc = "loop"
    /\ call.submitted
    /\ call.presented
    /\ call.recreated
    /\ call.frame0 = 1
    /\ m_currentFrame = 0

\* C29: each submission waits on its own slot's image-available semaphore and
\* signals its own slot's render-finished semaphore, each present request waits
\* on its own slot's render-finished semaphore, and no image is written before
\* its acquisition has completed or presented before its rendering has
\* finished.
C29_SemaphoreOrder ==
    sync.ypc /= "idle" =>
        /\ sync.fault = "none"
        /\ \A k \in DOMAIN sync.gpu :
             /\ sync.gpu[k].waitSem = sync.gpu[k].slot
             /\ sync.gpu[k].signalSem = sync.gpu[k].slot
        /\ \A k \in DOMAIN sync.presents : sync.presents[k].waitSem = sync.presents[k].slot
        /\ \A i \in DOMAIN sync.images :
             sync.images[i].state = "writing" =>
                \E k \in DOMAIN sync.gpu : sync.gpu[k].image = i /\ sync.gpu[k].started

\* Slot 1's frame is being written while slot 0's rendered frame waits to be
\* presented.
C29_Witness ==
    /\ Len(sync.presents) >= 1
    /\ sync.presents[1].slot = 0
    /\ sync.images[sync.presents[1].image].state = "rendered"
    /\ \E k \in DOMAIN sync.gpu :
         /\ sync.gpu[k].slot = 1
         /\ sync.gpu[k].started

\* C31: whenever cleanup() destroys the application's GPU resources, no
\* submitted GPU work is outstanding.
C31_CleanupAfterDeviceIdle ==
    [][(pc' = "done" /\ pc /= "done") => \A f \in Slots : pending[f] = 0]_vars

\* C32: when transitionImageLayout has ended, by returning or by rejecting the
\* layout pair, the single-use command buffer it allocated has been submitted
\* and freed; none is left in the recording state.
C32_OneShotBufferFreed ==
    trans.tpc \in {"done", "throw"} =>
        /\ trans.cmdBuffer = "freed"
        /\ trans.submitted

\* C33: when draw() is about to submit slot f's frame, slot f's
\* render-finished semaphore is unsignaled, no earlier submission has yet to
\* signal it and no earlier present request has yet to wait on it.
C33_RenderFinishedUnused ==
    (sync.ypc = "submit") =>
        LET s == SignalSemaphore(sync.slot)
        IN /\ sync.renderFinished[s] = 0
           /\ \A k \in DOMAIN sync.gpu : sync.gpu[k].signalSem /= s
           /\ \A k \in DOMAIN sync.presents : sync.presents[k].waitSem /= s

\* C34: with mipLevels = floor(log2(max(w, h))) + 1 the chain generateMipmaps
\* produces ends exactly at a 1x1 level: every level a blit reads has a
\* dimension greater than 1, the blit into level mipLevels-1 writes a 1x1
\* region, and the loop leaves mipWidth = mipHeight = 1.
C34_ChainEndsAtOneByOne ==
    tex.xpc \in {"inMipmaps", "done"} =>
        /\ tex.mipLevels = 1 => (tex.width = 1 /\ tex.height = 1)
        /\ \A k \in Blits :
             /\ commands[k].srcWidth > 1 \/ commands[k].srcHeight > 1
             /\ commands[k].dstLevel = tex.mipLevels - 1 =>
                  (commands[k].dstWidth = 1 /\ commands[k].dstHeight = 1)
             /\ commands[k].dstLevel < tex.mipLevels - 1 =>
                  (commands[k].dstWidth > 1 \/ commands[k].dstHeight > 1)
        /\ mpc \in {"barrierLast", "end", "done"} => (mipWidth = 1 /\ mipHeight = 1)

\* The chain of a texture that is one texel wide and at least four high is
\* complete.
C34_Witness ==
    /\ tex.xpc = "done"
    /\ tex.width = 1
    /\ tex.height >= 4
    /\ \E k \in Blits :
         /\ commands[k].dstLevel = tex.mipLevels - 1
         /\ commands[k].srcHeight > 1

InAcquireRecreation ==
    /\ pc \in {"rcGetSize", "rcPoll", "rcWaitEvents", "rcWaitIdle", "rcBuild"}
    /\ rcReturn = "loop"

\* The resize flag goes from set to clear only in the present step, which then
\* enters recreateSwapChain.
ClearedOnlyAtPresent ==
    (framebufferResized /\ ~framebufferResized') =>
        (pc = "present" /\ pc' = "rcGetSize" /\ rcReturn' = "advance")

\* A present step that finds the flag set clears it and recreates the swapchain.
SetFlagRecreatesAtPresent ==
    (pc = "present" /\ pc' # "present" /\ framebufferResized) =>
        (pc' = "rcGetSize" /\ ~framebufferResized')

\* C36 as claimed: the flag is cleared only in the present step, no step of a
\* recreation triggered by out-of-date acquisition changes the flag, and a
\* flag set when a frame reaches presentation causes a recreation there.
C36_Original ==
    [][/\ ClearedOnlyAtPresent
       /\ InAcquireRecreation => (framebufferResized' = framebufferResized)
       /\ SetFlagRecreatesAtPresent]_vars

\* C36: the flag is cleared only in the present step, no step of a recreation
\* triggered by out-of-date acquisition clears a set flag (its glfwWaitEvents
\* may set the flag), and a flag set when a frame reaches presentation is
\* cleared there and causes a recreation.
C36_FlagSurvivesAcquireRecreation ==
    [][/\ ClearedOnlyAtPresent
       /\ (InAcquireRecreation /\ framebufferResized) => framebufferResized'
       /\ SetFlagRecreatesAtPresent]_vars

\* draw() has returned from a recreation triggered by out-of-date acquisition;
\* no event was delivered inside it, and the flag, set before, is still set.
C36_Witness ==
    /\ pc = "loop"
    /\ call.acquire = "VK_ERROR_OUT_OF_DATE_KHR"
    /\ call.recreated
    /\ ~call.signalInRecreate
    /\ framebufferResized

\* The elements of a list.
Range(list) == {list[k] : k \in 1 .. Len(list)}

\* C37: detectMissingRequiredDeviceExtensions returns exactly the required
\* extension names that are absent from the device's available extensions, in
\* requirement order; the result is empty iff every required extension is
\* available.
C37_ReturnsAbsentRequired ==
    detect.dpc = "done" =>
        LET absent(name) == name \notin Range(detect.availableExtensions)
        IN /\ detect.missingExtensionNames = SelectSeq(detect.requiredExtensions, absent)
           /\ (detect.missingExtensionNames = << >>) <=>
                  (Range(detect.requiredExtensions) \subseteq
                       Range(detect.availableExtensions))

====
